---- MODULE Spec2Model ----
(***************************************************************************)
(* Model of the Kubernetes <-> Git sync engine of atomist/sdm-pack-k8.     *)
(*                                                                         *)
(*   SpecDiff : the Change Extractor's parser (parseNameStatusDiff) applied *)
(*              to the name-status output of one commit.                   *)
(*   Spec     : pushes to repositories, the IsSyncRepoCommit push test,    *)
(*              the forward sync goal K8sSync and the commits that the     *)
(*              reverse sync (syncResources) pushes to the sync repo.      *)
(*   SpecBulk : syncApply walking the spec files of the sync repo.         *)
(*   SpecMatch: matchSpec on one resource and one index.                   *)
(*   SpecName : specFileBasename on two resources.                         *)
(*   SpecRev  : one call of syncApplication, with syncResources writing    *)
(*              to a clone of the sync repo, committing and pushing.       *)
(*   SpecRerun: syncResources with action "upsert" run on a working copy   *)
(*              and then again, with the same batch, on the result.        *)
(*   SpecWrite: syncApplication on resources with data and properties in  *)
(*              an order, under sync options with and without a secretKey. *)
(*   SpecApply: upsertIngress and deleteIngress called one after the other *)
(*              against one cluster.                                       *)
(*   SpecDelete: one call of deleteApplication.                            *)
(*   SpecClient: calls of patchWithHeaders and other calls overlapping on  *)
(*              one API client.                                            *)
(*   SpecMakeClients: patch methods called on the clients makeApiClients   *)
(*              returns.                                                   *)
(*   SpecCipher: encrypt and decrypt of the secret cipher on one text.     *)
(*   SpecUpsert: one call of upsertApplication.                            *)
(*   SpecRepoSync: one call of repoSync: clone, syncApply, dispose.         *)
(*   SpecStartup: syncRepoStartupListener in one process, the interval      *)
(*              timer it registers and the sync jobs created.              *)
(*                                                                         *)
(* Text is modelled as a sequence of one-character strings, commit         *)
(* messages as sequences of tokens <<kind, value>>.                        *)
(***************************************************************************)
EXTENDS Integers, Sequences, FiniteSets, TLC

VARIABLES
    \* ---- Change Extractor (lib/sync/diff) ----
    sha,        \* commit hash handed to parseNameStatusDiff
    entries,    \* the <<status, path>> entries git reported for the commit
    diff,       \* the raw text of `git diff -z --name-status`
    parsed,     \* the PushDiff[] returned by parseNameStatusDiff
    dpc         \* "start" | "done"

VARIABLES
    \* ---- Commit-Loop Guard and forward sync (lib/sync/goals) ----
    cfg,        \* the SDM configuration: name and options.sync.repo
    cur,        \* the push being handled
    pc,         \* "idle" | "pushed" | "tested" | "changing" | "awaiting" | "done"
    testResult, \* outcome of the IsSyncRepoCommit push test for cur
    changes,    \* the PushDiff[] diffPush returned to K8sSync
    diffFailed, \* positions of the commits of cur whose git diff failed
    idx,        \* position of K8sSync in changes
    attempted,  \* the changes handed to changeResource so far, with the outcome
    errs,       \* the errors K8sSync collected
    result,     \* the ExecuteGoalResult of K8sSync
    revResult,  \* outcome of the last reverse sync (syncApplication)
    inflight    \* positions in changes of the calls of changeResource not settled

VARIABLES
    \* ---- Bulk apply of the sync repo (lib/sync/sync) ----
    bopts,      \* the sync options: is a secretKey configured
    bstream,    \* the spec files of the working copy, as streamFiles emits them
    bspecs,     \* the ProjectFile[] sortSpecs resolved with
    bpc,        \* "start" | "loop" | "done"
    bidx,       \* position of syncApply in bspecs
    blog,       \* the files processed so far, each with the step that failed
    berrors,    \* the errors syncApply collected
    bthrown     \* what syncApply threw, NoThrow after a normal return

VARIABLES
    \* ---- Spec Store Indexer (lib/sync/application) ----
    mspec,      \* the resource handed to matchSpec
    mindex,     \* the ProjectFileSpec[] handed to matchSpec
    mresult,    \* position in mindex of the entry returned, 0 for undefined
    mpc         \* "start" | "done"

VARIABLES
    \* ---- Deterministic Naming (lib/sync/application) ----
    nres,       \* two resources handed to specFileBasename
    nbase,      \* the base names returned for them
    npc         \* "start" | "done"

VARIABLES
    \* ---- Reverse Sync Writer (lib/sync/application) ----
    ropts,      \* the sync options: the secretKey
    raction,    \* "upsert" | "delete"
    rbatch,     \* the resources handed to syncApplication
    rhead,      \* the files of the commit of the sync repo that was cloned
    rfiles,     \* the files of the working copy
    rspecs,     \* the index syncResources built: {file, spec} entries
    rpc,        \* "call" | "load" | "index" | "loop" | "probe" | "commit" | "push" | "done"
    ridx,       \* position of syncResources in rbatch
    rpath,      \* the specPath resourceUpserted is probing
    rtried,     \* the names resourceUpserted found taken for the resource
    rops,       \* the file operations performed, in order
    rgit,       \* the calls of commit and push made, with their outcome
    rthrown     \* what syncApplication threw, NoThrow while it has not

VARIABLES
    \* ---- Resource Applier (lib/kubernetes/ingress, lib/kubernetes/application) ----
    aop,        \* the function running or last run: "upsertIngress" | "deleteIngress" |
                \* "deleteApplication" | "none"
    areq,       \* the request: are its port and its path there
    acluster,   \* the kinds of resources of the application the cluster holds
    apc,        \* "idle" | "read" | "create" | "patch" | "delete" | "kinds"
    akind,      \* position of deleteApplication in DeleteOrder
    atries,     \* failed attempts logRetry has made of the current call
    acalls,     \* the calls of the cluster API made by the invocation, in order
    adeleted,   \* the array `deleted` of deleteApplication
    aerrs,      \* the array `errs` of deleteApplication
    alog        \* the invocations that are over, in order

VARIABLES
    \* ---- API clients (lib/kubernetes/clients) ----
    hbase,      \* the defaultHeaders of the client before the first call
    hdefault,   \* api.defaultHeaders
    hcall       \* the calls made on the client, by caller

VARIABLES
    \* ---- Secret Cipher (lib/sync/goals) ----
    ctext,      \* the text handed to encrypt
    ckey,       \* the key handed to encrypt
    cenc,       \* what encrypt returned
    cdkey,      \* the key handed to decrypt
    cdec,       \* what decrypt returned
    cpc         \* "call" | "encrypted" | "decrypted" | "threw" | "failed" | "done"

VARIABLES
    \* ---- Startup of the sync (lib/sync/startup) ----
    sproc,      \* the process: local mode, cluster master, sync repo found, interval
    spc,        \* syncRepoStartupListener: "start" | "query" | "sync" | "done"
    stimer,     \* is the triggered listener with the interval registered
    sinv,       \* the invocations of sdmRepoSync, in the order they were made
    sjobs       \* the jobs created: "created" | "running" | "done"

VARIABLES
    \* ---- One sync cycle (lib/sync/sync) ----
    wpc,        \* repoSync: "idle" | "call" | "loading" | "applying" | "disposing" |
                \* "returned" | "threw"
    wdisposed,  \* calls of context.lifecycle.dispose made
    wlog        \* what repoSync logged: level and message

VARIABLES
    \* ---- Resource Applier: upsertApplication (lib/kubernetes/application) ----
    uapp,       \* the application: are its port and its path there
    upc,        \* "idle" | "call" | "steps" | "awaiting" | "done"
    ustep,      \* position of upsertApplication in UpsertOrder
    ucalls,     \* the upsert functions called, in order, with their outcome
    ures,       \* the array k8sResources
    uret        \* what upsertApplication returned or threw

VARIABLES
    \* ---- Reverse Sync Writer, run twice (lib/sync/application) ----
    rrun,       \* which run of syncResources this is: 1 | 2, 0 when none is counted
    rfirst      \* the files of the working copy when the first run was over

diffVars == <<sha, entries, diff, parsed, dpc>>
syncVars == <<cfg, cur, pc, testResult, changes, diffFailed, idx, attempted, errs, result, revResult, inflight>>
bulkVars == <<bopts, bstream, bspecs, bpc, bidx, blog, berrors, bthrown>>
matchVars == <<mspec, mindex, mresult, mpc>>
nameVars == <<nres, nbase, npc>>
revVars == <<ropts, raction, rbatch, rhead, rfiles, rspecs, rpc, ridx, rpath, rtried, rops, rgit, rthrown>>
applyVars == <<aop, areq, acluster, apc, akind, atries, acalls, adeleted, aerrs, alog>>
clientVars == <<hbase, hdefault, hcall>>
cipherVars == <<ctext, ckey, cenc, cdkey, cdec, cpc>>
schedVars == <<sproc, spc, stimer, sinv, sjobs>>
wrapVars == <<wpc, wdisposed, wlog>>
upsVars == <<uapp, upc, ustep, ucalls, ures, uret>>
rerunVars == <<rrun, rfirst>>
lastVars == <<schedVars, wrapVars, upsVars, rerunVars>>
laterVars == <<cipherVars, applyVars, clientVars, lastVars>>
outsideBulk == <<diffVars, syncVars, matchVars, nameVars, revVars, laterVars>>
outsideMatch == <<diffVars, syncVars, bulkVars, nameVars, revVars, laterVars>>
outsideName == <<diffVars, syncVars, bulkVars, matchVars, revVars, laterVars>>
outsideRev == <<diffVars, syncVars, bulkVars, matchVars, nameVars, laterVars>>
extVars == <<bulkVars, matchVars, nameVars, revVars, laterVars>>
outsideCipher == <<diffVars, syncVars, bulkVars, matchVars, nameVars, revVars, applyVars, clientVars, lastVars>>
outsideApply == <<diffVars, syncVars, bulkVars, matchVars, nameVars, revVars, cipherVars, clientVars, lastVars>>
outsideClient == <<diffVars, syncVars, bulkVars, matchVars, nameVars, revVars, cipherVars, applyVars, lastVars>>
outsideLast == <<diffVars, syncVars, bulkVars, matchVars, nameVars, revVars, cipherVars, applyVars, clientVars>>
outsideSched == <<outsideLast, wrapVars, upsVars, rerunVars>>
outsideWrap == <<diffVars, syncVars, matchVars, nameVars, revVars, cipherVars, applyVars, clientVars, schedVars, upsVars, rerunVars>>
outsideUps == <<outsideLast, schedVars, wrapVars, rerunVars>>
outsideRerun == <<diffVars, syncVars, bulkVars, matchVars, nameVars, cipherVars, applyVars, clientVars, schedVars, wrapVars, upsVars>>
vars == <<diffVars, syncVars, extVars>>

(***************************************************************************)
(* Bounds                                                                  *)
(***************************************************************************)
MaxEntries == 3     \* entries in the diff of one commit
MaxBlank == 3       \* length of a blank (whitespace/NUL only) diff text
MaxCommits == 2     \* commits in one push
MaxSpecFiles == 3   \* spec files in the working copy syncApply walks
MaxIndex == 2       \* entries in the index handed to matchSpec
MaxBatch == 2       \* resources in the batch handed to syncApplication
MaxFiles == 2       \* files in the clone of the sync repo
MaxText == 2        \* characters of a short text handed to encrypt
MaxAttempts == 2    \* attempts logRetry makes of one call
MaxInvocations == 2 \* invocations of the Resource Applier in a row
MaxCalls == 2       \* calls that overlap on one API client
MaxTicks == 2       \* times the interval timer fires

(***************************************************************************)
(* Characters and text                                                     *)
(***************************************************************************)
NUL == "NUL"        \* the character \0
NL == "\n"
SP == " "
TAB == "\t"

Whitespace == {SP, NL, TAB}

\* Collation order of the characters that occur in the modelled paths, as
\* String.prototype.localeCompare orders them.
Collation ==
    <<NUL, TAB, NL, SP, "_", "-", ".", "/",
      "a", "b", "c", "d", "e", "f", "g", "h", "i", "j", "k", "l", "m",
      "n", "o", "p", "q", "r", "s", "t", "u", "v", "w", "x", "y", "z",
      "A", "C", "D", "M", "R">>

CharRank(c) == CHOOSE i \in 1..Len(Collation) : Collation[i] = c

\* a.localeCompare(b) < 0
RECURSIVE LocaleLess(_, _)
LocaleLess(a, b) ==
    IF b = <<>> THEN FALSE
    ELSE IF a = <<>> THEN TRUE
    ELSE IF Head(a) = Head(b) THEN LocaleLess(Tail(a), Tail(b))
    ELSE CharRank(Head(a)) < CharRank(Head(b))

\* String.prototype.trim
RECURSIVE TrimLeft(_)
TrimLeft(s) ==
    IF s # <<>> /\ Head(s) \in Whitespace THEN TrimLeft(Tail(s)) ELSE s

RECURSIVE TrimRight(_)
TrimRight(s) ==
    IF s # <<>> /\ s[Len(s)] \in Whitespace
    THEN TrimRight(SubSeq(s, 1, Len(s) - 1)) ELSE s

Trim(s) == TrimRight(TrimLeft(s))

\* String.prototype.split(sep) for a one-character separator
RECURSIVE SplitFrom(_, _, _)
SplitFrom(s, sep, acc) ==
    IF s = <<>> THEN <<acc>>
    ELSE IF Head(s) \in sep THEN <<acc>> \o SplitFrom(Tail(s), sep, <<>>)
    ELSE SplitFrom(Tail(s), sep, Append(acc, Head(s)))

Split(s, sep) == SplitFrom(s, {sep}, <<>>)

EndsWith(s, suffix) ==
    /\ Len(s) >= Len(suffix)
    /\ SubSeq(s, Len(s) - Len(suffix) + 1, Len(s)) = suffix

(***************************************************************************)
(* Change Extractor                                                        *)
(***************************************************************************)
SpecExtensions ==
    { <<".", "j", "s", "o", "n">>, <<".", "y", "a", "m", "l">>, <<".", "y", "m", "l">> }

\* k8sSpecGlob "*.@(json|yaml|yml)": a file at the root of the repository
\* with one of the spec extensions.
MatchesSpecGlob(path) ==
    /\ \A i \in 1..Len(path) : path[i] # "/"
    /\ \E ext \in SpecExtensions : EndsWith(path, ext) /\ Len(path) > Len(ext)

\* ChangeOf with the kinds of "D" and of the other letters exchanged
ChangeOfSwapped(status) ==
    IF status = <<>> THEN "none"
    ELSE IF Head(status) = "D" THEN "apply"
    ELSE IF Head(status) \in {"A", "M", "C", "R"} THEN "delete"
    ELSE "none"

\* The change kind of a status field: "D" is a delete, an added, modified,
\* copied or renamed-to path is an apply; a score after the letter is ignored.
ChangeOf(status) ==
    IF status = <<>> THEN "none"
    ELSE IF Head(status) = "D" THEN "delete"
    ELSE IF Head(status) \in {"A", "M", "C", "R"} THEN "apply"
    ELSE "none"

\* PushDiffLess comparing the paths only
PushDiffLessByPath(a, b) == LocaleLess(a.path, b.path)

\* Order of the returned records: deletes before applies, each kind by path.
PushDiffLess(a, b) ==
    \/ a.change = "delete" /\ b.change = "apply"
    \/ a.change = b.change /\ LocaleLess(a.path, b.path)

RECURSIVE InsertSorted(_, _)
InsertSorted(x, s) ==
    IF s = <<>> THEN <<x>>
    ELSE IF PushDiffLess(x, Head(s)) THEN <<x>> \o s
    ELSE <<Head(s)>> \o InsertSorted(x, Tail(s))

RECURSIVE SortPushDiffs(_)
SortPushDiffs(s) ==
    IF s = <<>> THEN <<>>
    ELSE InsertSorted(s[Len(s)], SortPushDiffs(SubSeq(s, 1, Len(s) - 1)))

\* DiffFields splitting at blanks as well as at NUL
DiffFieldsWhitespace(text) == SplitFrom(Trim(text), {NUL, SP}, <<>>)

\* The NUL separated fields of the diff text
DiffFields(text) == Split(Trim(text), NUL)

\* FieldChanges without the checks of the status and of the path
RECURSIVE FieldChangesUnfiltered(_, _)
FieldChangesUnfiltered(s, fields) ==
    IF Len(fields) < 2 THEN <<>>
    ELSE <<[sha |-> s, change |-> IF fields[1] = <<"D">> THEN "delete" ELSE "apply",
            path |-> fields[2]]>>
         \o FieldChangesUnfiltered(s, SubSeq(fields, 3, Len(fields)))

\* The records of the fields taken two at a time: status, path
RECURSIVE FieldChanges(_, _)
FieldChanges(s, fields) ==
    IF Len(fields) < 2 THEN <<>>
    ELSE LET status == Trim(fields[1])
             path == fields[2]
             rest == FieldChanges(s, SubSeq(fields, 3, Len(fields)))
         IN  IF ChangeOf(status) # "none" /\ MatchesSpecGlob(path)
             THEN <<[sha |-> s, change |-> ChangeOf(status), path |-> path]>> \o rest
             ELSE rest

parseNameStatusDiff(s, text) == SortPushDiffs(FieldChanges(s, DiffFields(text)))

(***************************************************************************)
(* Inputs of the Change Extractor                                          *)
(***************************************************************************)
Statuses == { <<"A">>, <<"M">>, <<"D">> }

Paths ==
    { <<"a", ".", "y", "a", "m", "l">>,
      <<"b", ".", "y", "m", "l">>,
      <<"a", "a", ".", "j", "s", "o", "n">>,
      <<"s", " ", "t", ".", "j", "s", "o", "n">>,
      <<"i", "/", "l", ".", "j", "s", "o", "n">>,
      <<"f", "y", "m", "l">> }

Shas == {"958c655", "7708d44"}

\* What git reports for one commit: every path at most once
EntrySeqs ==
    { es \in UNION { [1..n -> Statuses \X Paths] : n \in 0..MaxEntries } :
        \A i, j \in 1..Len(es) : i # j => es[i][2] # es[j][2] }

\* `git diff -z --name-status`: status NUL path NUL for every entry
RECURSIVE RenderDiff(_)
RenderDiff(es) ==
    IF es = <<>> THEN <<>>
    ELSE Head(es)[1] \o <<NUL>> \o Head(es)[2] \o <<NUL>> \o RenderDiff(Tail(es))

BlankTexts == UNION { [1..n -> {SP, NL, NUL}] : n \in 0..MaxBlank }

(***************************************************************************)
(* Commit messages                                                         *)
(***************************************************************************)
Undefined == "undefined"

\* configurationValue("name", ...) falls back to the name of this package
DefaultName == "@atomist/sdm-pack-k8s"

Word(w) == <<"word", w>>
GeneratedMarker == <<"atomist:generated", "">>
AutofixMarker == <<"atomist:autofix", "typescript_header">>
SyncCommitToken(name) == <<"atomist:sync-commit", name>>

\* String.prototype.includes
Includes(text, sub) ==
    \E i \in 1..(Len(text) - Len(sub) + 1) : SubSeq(text, i, i + Len(sub) - 1) = sub

\* configurationValue("name", default): the name of the running client
configurationName == IF cfg.name # Undefined THEN cfg.name ELSE DefaultName

\* commitTag(config?): "[atomist:sync-commit=NAME]", NAME taken from the
\* configuration passed, else from the running client's configuration
commitTag(configName) ==
    <<SyncCommitToken(IF configName # Undefined THEN configName ELSE configurationName)>>

\* appName(app): "NAMESPACE/NAME"
appName(app) == <<Word(app.ns), Word("/"), Word(app.name)>>

\* SyncCommitMessage with the generated marker only
SyncCommitMessageUntagged(syncVerb, app) ==
    <<Word(syncVerb), Word("specs for")>> \o appName(app) \o <<GeneratedMarker>>

\* The message syncResources commits with
SyncCommitMessage(syncVerb, app) ==
    <<Word(syncVerb), Word("specs for")>> \o appName(app)
        \o <<GeneratedMarker>> \o commitTag(Undefined)

(***************************************************************************)
(* Commit-Loop Guard                                                       *)
(***************************************************************************)
\* isRemoteRepo(repo): the SyncRepoRef was converted to a RemoteRepoRef
isRemoteRepo(repo) == repo.resolved

\* isSyncRepoCommit with commits.every in place of commits.some
isSyncRepoCommitEvery(sdm, p) ==
    LET repo == sdm.repo
    IN  IF ~isRemoteRepo(repo) THEN "error"
        ELSE IF /\ p.id.providerType = repo.providerType
                /\ p.id.owner = repo.owner
                /\ p.id.repo = repo.repo
                /\ p.id.branch = repo.branch
        THEN IF \A i \in 1..Len(p.commits) :
                    ~Includes(p.commits[i].message, commitTag(sdm.name))
             THEN "true" ELSE "false"
        ELSE "false"

\* isSyncRepoCommit without the comparison of the branch
isSyncRepoCommitAnyBranch(sdm, p) ==
    LET repo == sdm.repo
    IN  IF ~isRemoteRepo(repo) THEN "error"
        ELSE IF /\ p.id.providerType = repo.providerType
                /\ p.id.owner = repo.owner
                /\ p.id.repo = repo.repo
        THEN IF \E i \in 1..Len(p.commits) :
                    ~Includes(p.commits[i].message, commitTag(sdm.name))
             THEN "true" ELSE "false"
        ELSE "false"

\* isSyncRepoCommit without the check that the repo is a RemoteRepoRef
isSyncRepoCommitUnchecked(sdm, p) ==
    LET repo == sdm.repo
    IN  IF /\ p.id.providerType = repo.providerType
           /\ p.id.owner = repo.owner
           /\ p.id.repo = repo.repo
           /\ p.id.branch = repo.branch
        THEN IF \E i \in 1..Len(p.commits) :
                    ~Includes(p.commits[i].message, commitTag(sdm.name))
             THEN "true" ELSE "false"
        ELSE "false"

\* The IsSyncRepoCommit push test: "true", "false" or "error" (it throws)
isSyncRepoCommit(sdm, p) ==
    LET repo == sdm.repo
    IN  IF ~isRemoteRepo(repo) THEN "error"
        ELSE IF /\ p.id.providerType = repo.providerType
                /\ p.id.owner = repo.owner
                /\ p.id.repo = repo.repo
                /\ p.id.branch = repo.branch
        THEN IF \E i \in 1..Len(p.commits) :
                    ~Includes(p.commits[i].message, commitTag(sdm.name))
             THEN "true" ELSE "false"
        ELSE "false"

(***************************************************************************)
(* Forward sync                                                            *)
(***************************************************************************)
\* diffPush(project, push, tag, log): the changes of the commits of the push
\* that do not carry the tag, commit by commit; a commit whose git diff
\* fails is logged and skipped.  failing: positions whose git diff fails.
RECURSIVE diffPushFrom(_, _, _, _)
diffPushFrom(commits, i, tag, failing) ==
    IF i > Len(commits) THEN <<>>
    ELSE LET commit == commits[i]
             rest == diffPushFrom(commits, i + 1, tag, failing)
         IN  IF Includes(commit.message, tag) \/ i \in failing THEN rest
             ELSE parseNameStatusDiff(commit.sha, commit.diff) \o rest

diffPush(push, tag, failing) == diffPushFrom(push.commits, 1, tag, failing)

\* K8sSyncTag handing over the marker of all generated commits
K8sSyncTagGenerated(configuration) == <<GeneratedMarker>>

\* The tag K8sSync hands to diffPush
K8sSyncTag(configuration) == commitTag(configuration.name)

\* K8sSyncLoopDone leaving the loop at the first error
K8sSyncLoopDoneOnError(i, chs, es) == i > Len(chs) \/ Len(es) > 0

\* The loop of K8sSync over the changes is over
K8sSyncLoopDone(i, chs, es) == i > Len(chs)

\* The message K8sSync gives the error of a failed change
ChangeFailure(change, reason) ==
    [verb |-> "Failed to", change |-> change.change, path |-> change.path,
     sha |-> change.sha, reason |-> reason]

\* The ExecuteGoalResult of K8sSync; the message is the list that is joined
K8sSyncResult(chs, es) ==
    IF Len(es) > 0
    THEN [code |-> Len(es), message |-> es]
    ELSE [code |-> 0, message |-> <<[verb |-> "Changed", count |-> Len(chs)]>>]

NoResult == [code |-> -1, message |-> <<>>]
Threw == [code |-> -2, message |-> <<>>]

(***************************************************************************)
(* Pushes                                                                  *)
(***************************************************************************)
ShaSeq == <<"958c655", "7708d44", "af496fa", "7781973">>

SyncRepoId == [providerType |-> "github", owner |-> "atomist", repo |-> "specs", branch |-> "master"]

\* The sync repo and four repositories that differ from it in one field
PushIds ==
    { SyncRepoId,
      [SyncRepoId EXCEPT !.providerType = "ghe"],
      [SyncRepoId EXCEPT !.owner = "tonina"],
      [SyncRepoId EXCEPT !.repo = "black-angel"],
      [SyncRepoId EXCEPT !.branch = "test-branch"] }

Names == {Undefined, "my-sdm"}

Apps == { [ns |-> "black-angel", name |-> "tonina"] }

DevMessages ==
    { <<Word("Senseless changes")>>,
      <<Word("Autofix"), GeneratedMarker, AutofixMarker>>,
      <<Word("Change"), GeneratedMarker, SyncCommitToken(DefaultName)>>,
      <<Word("Revert"), GeneratedMarker, SyncCommitToken("my-sdm")>> }

CommitDiffs ==
    { RenderDiff(<< <<<<"D">>, <<"b", ".", "y", "m", "l">>>>,
                    <<<<"A">>, <<"a", "a", ".", "j", "s", "o", "n">>>> >>),
      RenderDiff(<< <<<<"M">>, <<"a", ".", "y", "a", "m", "l">>>>,
                    <<<<"A">>, <<"i", "/", "l", ".", "j", "s", "o", "n">>>> >>) }

DevCommits(n) ==
    { [i \in 1..n |-> [sha |-> ShaSeq[i], message |-> f[i][1], diff |-> f[i][2], origin |-> "dev"]] :
        f \in [1..n -> DevMessages \X CommitDiffs] }

NoPush == [id |-> SyncRepoId, commits |-> <<>>]

SyncInit ==
    /\ cfg \in [name : Names,
                repo : [resolved : BOOLEAN, providerType : {"github"}, owner : {"atomist"},
                        repo : {"specs"}, branch : {"master", Undefined}]]
    /\ cur = NoPush
    /\ pc = "idle"
    /\ testResult = "none"
    /\ changes = <<>>
    /\ diffFailed = {}
    /\ idx = 1
    /\ attempted = <<>>
    /\ errs = <<>>
    /\ result = NoResult
    /\ revResult = "none"
    /\ inflight = {}

SyncIdle ==
    /\ cfg = [name |-> Undefined,
              repo |-> [resolved |-> TRUE, providerType |-> "github", owner |-> "atomist",
                        repo |-> "specs", branch |-> "master"]]
    /\ cur = NoPush
    /\ pc = "idle"
    /\ testResult = "none"
    /\ changes = <<>>
    /\ diffFailed = {}
    /\ idx = 1
    /\ attempted = <<>>
    /\ errs = <<>>
    /\ result = NoResult
    /\ revResult = "none"
    /\ inflight = {}

DiffIdle ==
    /\ sha = "958c655"
    /\ entries = <<>>
    /\ diff = <<>>
    /\ parsed = <<>>
    /\ dpc = "start"

\* A new push event is handled
Arrive(push) ==
    /\ pc = "idle"
    /\ cur' = push
    /\ pc' = "pushed"
    /\ testResult' = "none"
    /\ changes' = <<>>
    /\ diffFailed' = {}
    /\ idx' = 1
    /\ attempted' = <<>>
    /\ errs' = <<>>
    /\ result' = NoResult

\* Somebody pushes commits to some repository
DevPush ==
    /\ pc = "idle"
    /\ \E id \in PushIds, n \in 0..MaxCommits :
         \E cs \in DevCommits(n) : Arrive([id |-> id, commits |-> cs])
    /\ revResult' = "none"
    /\ UNCHANGED <<cfg, inflight, diffVars, extVars>>

\* syncApplication -> syncResources: when the working copy is dirty, commit
\* with the generated message and push to the sync repo
ReverseSync ==
    /\ pc = "idle"
    /\ \E app \in Apps, syncVerb \in {"Update", "Delete"}, text \in CommitDiffs,
          clean \in BOOLEAN, commitOk \in BOOLEAN, pushOk \in BOOLEAN :
         IF ~cfg.repo.resolved
         THEN /\ revResult' = "clone failed"
              /\ UNCHANGED <<cur, pc, testResult, changes, diffFailed, idx, attempted, errs, result>>
         ELSE IF clean
         THEN /\ revResult' = "clean"
              /\ UNCHANGED <<cur, pc, testResult, changes, diffFailed, idx, attempted, errs, result>>
         ELSE IF ~commitOk
         THEN /\ revResult' = "commit failed"
              /\ UNCHANGED <<cur, pc, testResult, changes, diffFailed, idx, attempted, errs, result>>
         ELSE IF ~pushOk
         THEN /\ revResult' = "push failed"
              /\ UNCHANGED <<cur, pc, testResult, changes, diffFailed, idx, attempted, errs, result>>
         ELSE /\ revResult' = "pushed"
              /\ Arrive([id |-> [SyncRepoId EXCEPT !.branch =
                                    IF cfg.repo.branch = Undefined THEN "master" ELSE cfg.repo.branch],
                         commits |-> <<[sha |-> ShaSeq[1],
                                        message |-> SyncCommitMessage(syncVerb, app),
                                        diff |-> text, origin |-> "reverse"]>>])
    /\ UNCHANGED <<cfg, inflight, diffVars, extVars>>

\* The SDM evaluates the IsSyncRepoCommit push test on the push
PushTest ==
    /\ pc = "pushed"
    /\ testResult' = isSyncRepoCommit(cfg, cur)
    /\ pc' = "tested"
    /\ UNCHANGED <<cfg, cur, changes, diffFailed, idx, attempted, errs, result, revResult, inflight, diffVars, extVars>>

\* The handling of the push is over
Forget ==
    /\ cur' = NoPush
    /\ pc' = "idle"
    /\ testResult' = "none"
    /\ changes' = <<>>
    /\ diffFailed' = {}
    /\ idx' = 1
    /\ attempted' = <<>>
    /\ errs' = <<>>
    /\ result' = NoResult
    /\ revResult' = "none"
    /\ UNCHANGED <<cfg, inflight, diffVars, extVars>>

\* The push test did not pass: no goal is planned
NoGoals ==
    /\ pc = "tested"
    /\ testResult # "true"
    /\ Forget

\* The sync goal of the push reached its final state
GoalCompleted ==
    /\ pc = "done"
    /\ Forget

\* K8sSync, up to the loop: clone the project and diff the push
K8sSyncStart ==
    /\ pc = "tested"
    /\ testResult = "true"
    /\ \E failing \in SUBSET (1..Len(cur.commits)) :
         /\ changes' = diffPush(cur, K8sSyncTag(cfg), failing)
         /\ diffFailed' = failing
    /\ idx' = 1
    /\ errs' = <<>>
    /\ attempted' = <<>>
    /\ pc' = "changing"
    /\ UNCHANGED <<cfg, cur, testResult, result, revResult, inflight, diffVars, extVars>>

\* K8sSync when the project cannot be loaded: doWithProject rejects
K8sSyncNoProject ==
    /\ pc = "tested"
    /\ testResult = "true"
    /\ result' = Threw
    /\ pc' = "done"
    /\ UNCHANGED <<cfg, cur, testResult, changes, diffFailed, idx, attempted, errs, revResult, inflight, diffVars, extVars>>

\* the loop taking the changes last first
LoopChangeReversed(chs, i) == chs[Len(chs) + 1 - i]

\* for (const change of changes): the change of the i-th iteration
LoopChange(chs, i) == chs[i]

\* K8sSync, one iteration of the loop up to the await: changeResource is
\* called for the next change
K8sSyncCall ==
    /\ pc = "changing"
    /\ ~K8sSyncLoopDone(idx, changes, errs)
    /\ inflight' = inflight \cup {idx}
    /\ pc' = "awaiting"
    /\ UNCHANGED <<cfg, cur, testResult, changes, diffFailed, idx, attempted, errs, result,
                   revResult, diffVars, extVars>>

\* K8sSync, the rest of the iteration: changeResource has succeeded or
\* thrown
K8sSyncChange ==
    /\ pc = "awaiting"
    /\ \E ok \in BOOLEAN :
         /\ attempted' = Append(attempted, [change |-> LoopChange(changes, idx), ok |-> ok])
         /\ errs' = IF ok THEN errs
                    ELSE Append(errs, ChangeFailure(LoopChange(changes, idx), "error"))
    /\ inflight' = inflight \ {idx}
    /\ idx' = idx + 1
    /\ pc' = "changing"
    /\ UNCHANGED <<cfg, cur, testResult, changes, diffFailed, result, revResult, diffVars, extVars>>

\* K8sSync, after the loop
K8sSyncFinish ==
    /\ pc = "changing"
    /\ K8sSyncLoopDone(idx, changes, errs)
    /\ result' = K8sSyncResult(changes, errs)
    /\ pc' = "done"
    /\ UNCHANGED <<cfg, cur, testResult, changes, diffFailed, idx, attempted, errs, revResult, inflight, diffVars, extVars>>

(***************************************************************************)
(* Spec Store Indexer: matchSpec (lib/sync/application)                    *)
(***************************************************************************)
\* A Kubernetes object, as far as the sync looks at it.  A property that
\* is not set is Undefined.
KubernetesObject(apiVersion, kind, name, namespace) ==
    [apiVersion |-> apiVersion, kind |-> kind,
     metadata |-> [name |-> name, namespace |-> namespace]]

\* The object a file holding "{}" parses to: none of the properties
\* matchSpec compares is set.
EmptyObject == KubernetesObject(Undefined, Undefined, Undefined, Undefined)

\* matchSpec comparing apiVersion, kind and name only
matchSpecAnyNamespace(spec, fileSpecs) ==
    LET hits == { i \in 1..Len(fileSpecs) :
                    /\ spec.apiVersion = fileSpecs[i].spec.apiVersion
                    /\ spec.kind = fileSpecs[i].spec.kind
                    /\ spec.metadata.name = fileSpecs[i].spec.metadata.name }
    IN  IF hits = {} THEN 0 ELSE CHOOSE i \in hits : \A j \in hits : i <= j

\* matchSpec finding nothing
matchSpecNothing(spec, fileSpecs) == 0

\* fileSpecs.find(...): the position of the first entry whose apiVersion,
\* kind, metadata.name and metadata.namespace are === those of spec; 0 when
\* find returns undefined.
matchSpec(spec, fileSpecs) ==
    LET hits == { i \in 1..Len(fileSpecs) :
                    /\ spec.apiVersion = fileSpecs[i].spec.apiVersion
                    /\ spec.kind = fileSpecs[i].spec.kind
                    /\ spec.metadata.name = fileSpecs[i].spec.metadata.name
                    /\ spec.metadata.namespace = fileSpecs[i].spec.metadata.namespace }
    IN  IF hits = {} THEN 0 ELSE CHOOSE i \in hits : \A j \in hits : i <= j

\* The objects of the matchSpec tests and their near-matches.
MatchObjects ==
    { KubernetesObject(a, k, n, ns) :
        a \in {"v1", "apps/v1"}, k \in {"Service", "Deployment"},
        n \in {"lyle", "jon"}, ns \in {Undefined, "lovett"} }

\* The indexes handed to matchSpec; the file of an entry plays no part in
\* the search.
MatchIndexes ==
    UNION { [1..n -> [file : {"spec.json"}, spec : MatchObjects \cup {EmptyObject}]] :
              n \in 0..MaxIndex }

MatchIdle ==
    /\ mspec = EmptyObject
    /\ mindex = <<>>
    /\ mresult = 0
    /\ mpc = "done"

MatchInit ==
    /\ mspec \in MatchObjects
    /\ mindex \in MatchIndexes
    /\ mresult = 0
    /\ mpc = "start"

MatchSpec ==
    /\ mpc = "start"
    /\ mresult' = matchSpec(mspec, mindex)
    /\ mpc' = "done"
    /\ UNCHANGED <<mspec, mindex, outsideMatch>>

MatchNext == MatchSpec

(***************************************************************************)
(* Deterministic Naming: specFileBasename (lib/sync/application)           *)
(***************************************************************************)
LowerCase ==
    <<"a", "b", "c", "d", "e", "f", "g", "h", "i", "j", "k", "l", "m",
      "n", "o", "p", "q", "r", "s", "t", "u", "v", "w", "x", "y", "z">>
UpperCase ==
    <<"A", "B", "C", "D", "E", "F", "G", "H", "I", "J", "K", "L", "M",
      "N", "O", "P", "Q", "R", "S", "T", "U", "V", "W", "X", "Y", "Z">>

IsLower(c) == \E i \in 1..26 : LowerCase[i] = c
IsUpper(c) == \E i \in 1..26 : UpperCase[i] = c

\* String.prototype.toLowerCase
ToLowerCase(s) ==
    [i \in 1..Len(s) |->
        IF IsUpper(s[i]) THEN LowerCase[CHOOSE k \in 1..26 : UpperCase[k] = s[i]]
        ELSE s[i]]

\* kind.replace(/([a-z])([A-Z])/g, "$1-$2"): a hyphen between a lower case
\* letter and the upper case letter that follows it
RECURSIVE KebabCase(_)
KebabCase(s) ==
    IF Len(s) < 2 THEN s
    ELSE IF IsLower(s[1]) /\ IsUpper(s[2])
         THEN <<s[1], "-">> \o KebabCase(Tail(s))
         ELSE <<s[1]>> \o KebabCase(Tail(s))

\* The characters of the names and kinds of the modelled resources.
Chars(s) ==
    CASE s = "lyle" -> <<"l", "y", "l", "e">>
      [] s = "tonina" -> <<"t", "o", "n", "i", "n", "a">>
      [] s = "black-angel" -> <<"b", "l", "a", "c", "k", "-", "a", "n", "g", "e", "l">>
      [] s = "lovett" -> <<"l", "o", "v", "e", "t", "t">>
      [] s = "lyle-cluster" -> <<"l", "y", "l", "e", "-", "c", "l", "u", "s", "t", "e", "r">>
      [] s = "lovett-lyle" -> <<"l", "o", "v", "e", "t", "t", "-", "l", "y", "l", "e">>
      [] s = "Namespace" -> <<"N", "a", "m", "e", "s", "p", "a", "c", "e">>
      [] s = "Deployment" -> <<"D", "e", "p", "l", "o", "y", "m", "e", "n", "t">>
      [] s = "Secret" -> <<"S", "e", "c", "r", "e", "t">>
      [] s = "Service" -> <<"S", "e", "r", "v", "i", "c", "e">>
      [] s = "ServiceAccount" -> <<"S", "e", "r", "v", "i", "c", "e", "A", "c", "c", "o", "u", "n", "t">>
      [] s = "Role" -> <<"R", "o", "l", "e">>
      [] s = "RoleBinding" -> <<"R", "o", "l", "e", "B", "i", "n", "d", "i", "n", "g">>
      [] s = "ClusterRole" -> <<"C", "l", "u", "s", "t", "e", "r", "R", "o", "l", "e">>

\* `${ns}${name}-${kebab kind}`.toLowerCase(), ns being `${namespace}-` for
\* a resource that has a namespace and empty otherwise
specFileBasename(resource) ==
    LET ns == IF resource.metadata.namespace # Undefined
              THEN Chars(resource.metadata.namespace) \o <<"-">>
              ELSE <<>>
    IN  ToLowerCase(ns \o Chars(resource.metadata.name) \o <<"-">> \o KebabCase(Chars(resource.kind)))

\* The resources of the specFileBasename tests, and resources whose names
\* contain a hyphen.
NameObjects ==
    { KubernetesObject("v1", k, n, ns) :
        k \in {"Namespace", "Deployment", "Service", "ServiceAccount", "Role", "ClusterRole",
               "RoleBinding"},
        n \in {"lyle", "lovett", "lyle-cluster", "lovett-lyle"},
        ns \in {Undefined, "lovett"} }

NameIdle ==
    /\ nres = <<>>
    /\ nbase = <<>>
    /\ npc = "done"

NameInit ==
    /\ nres \in [1..2 -> NameObjects]
    /\ nbase = <<>>
    /\ npc = "start"

SpecFileBasename ==
    /\ npc = "start"
    /\ nbase' = [i \in 1..2 |-> specFileBasename(nres[i])]
    /\ npc' = "done"
    /\ UNCHANGED <<nres, outsideName>>

NameNext == SpecFileBasename

(***************************************************************************)
(* Bulk apply of the sync repo: syncApply and sortSpecs (lib/sync/sync)    *)
(***************************************************************************)
NoThrow == <<>>

\* The files k8sSpecGlob selects: a path and whether the spec is a Secret.
SpecFiles ==
    { [path |-> p, secret |-> s] : p \in {q \in Paths : MatchesSpecGlob(q)}, s \in BOOLEAN }

\* What streamFiles(k8sSpecGlob) can emit: files with distinct paths, in
\* any order.
SpecFileStreams ==
    { s \in UNION { [1..n -> SpecFiles] : n \in 0..MaxSpecFiles } :
        \A i, j \in 1..Len(s) : i # j => s[i].path # s[j].path }

\* (a, b) => a.path.localeCompare(b.path)
RECURSIVE InsertByPath(_, _)
InsertByPath(f, s) ==
    IF s = <<>> THEN <<f>>
    ELSE IF LocaleLess(f.path, Head(s).path) THEN <<f>> \o s
    ELSE <<Head(s)>> \o InsertByPath(f, Tail(s))

\* sortSpecs, when the stream ends: the files sorted by path
RECURSIVE sortSpecs(_)
sortSpecs(stream) ==
    IF stream = <<>> THEN <<>>
    ELSE InsertByPath(Head(stream), sortSpecs(Tail(stream)))

\* The steps of one iteration that can throw: parseKubernetesSpecFile,
\* decryptSecret (only for a Secret when a secretKey is configured) and
\* applySpec.
ApplySteps(file, opts) ==
    {"parse", "apply"} \cup (IF file.secret /\ opts.secretKey THEN {"decrypt"} ELSE {})

\* e.message = `Failed to apply '${specFile.path}': ${errMsg(e)}`
ApplyFailure(file, step) == <<"Failed to apply", file.path, step>>

\* the loop of syncApply left at the first error
syncApplyLoopDoneOnError(i, files, es) == i > Len(files) \/ Len(es) > 0

\* for (const specFile of specFiles): the loop is over after the last file
syncApplyLoopDone(i, files, es) == i > Len(files)

\* `There were errors during repo sync: ${errors.map(e => e.message).join("; ")}`
syncApplyError(es) == <<"There were errors during repo sync">> \o es

StreamError == <<"stream error">>

BulkIdle ==
    /\ bopts = [secretKey |-> FALSE]
    /\ bstream = <<>>
    /\ bspecs = <<>>
    /\ bpc = "done"
    /\ bidx = 0
    /\ blog = <<>>
    /\ berrors = <<>>
    /\ bthrown = NoThrow

BulkInit ==
    /\ bopts \in [secretKey : BOOLEAN]
    /\ bstream \in SpecFileStreams
    /\ bspecs = <<>>
    /\ bpc = "start"
    /\ bidx = 0
    /\ blog = <<>>
    /\ berrors = <<>>
    /\ bthrown = NoThrow

\* sortSpecs resolves: the stream ended
SortSpecsEnd ==
    /\ bpc = "start"
    /\ bspecs' = sortSpecs(bstream)
    /\ bidx' = 1
    /\ bpc' = "loop"
    /\ UNCHANGED <<bopts, bstream, blog, berrors, bthrown, outsideBulk>>

\* sortSpecs rejects: the stream reported an error, syncApply throws it
SortSpecsError ==
    /\ bpc = "start"
    /\ bthrown' = StreamError
    /\ bpc' = "done"
    /\ UNCHANGED <<bopts, bstream, bspecs, bidx, blog, berrors, outsideBulk>>

\* one iteration of the loop of syncApply
SyncApplyFile ==
    /\ bpc = "loop"
    /\ ~syncApplyLoopDone(bidx, bspecs, berrors)
    /\ \E failed \in {"none"} \cup ApplySteps(bspecs[bidx], bopts) :
           /\ blog' = Append(blog, [path |-> bspecs[bidx].path, failed |-> failed])
           /\ berrors' = IF failed = "none" THEN berrors
                         ELSE Append(berrors, ApplyFailure(bspecs[bidx], failed))
    /\ bidx' = bidx + 1
    /\ UNCHANGED <<bopts, bstream, bspecs, bpc, bthrown, outsideBulk>>

\* syncApply, after the loop
SyncApplyEnd ==
    /\ bpc = "loop"
    /\ syncApplyLoopDone(bidx, bspecs, berrors)
    /\ bthrown' = IF Len(berrors) > 0 THEN syncApplyError(berrors) ELSE NoThrow
    /\ bpc' = "done"
    /\ UNCHANGED <<bopts, bstream, bspecs, bidx, blog, berrors, outsideBulk>>


BulkNext ==
    \/ SortSpecsEnd
    \/ SortSpecsError
    \/ SyncApplyFile
    \/ SyncApplyEnd

(***************************************************************************)
(* Reverse Sync Writer: syncApplication, syncResources, resourceUpserted   *)
(* and resourceDeleted (lib/sync/application)                              *)
(***************************************************************************)
\* A resource of a batch: a Kubernetes object and the rest of it (its
\* labels, spec, data), of which only the version matters here.
Resource(apiVersion, kind, name, namespace, body) ==
    [apiVersion |-> apiVersion, kind |-> kind,
     metadata |-> [name |-> name, namespace |-> namespace], body |-> body]

SyncedResources ==
    { Resource("v1", "Service", "tonina", "black-angel", "new"),
      Resource("v1", "Service", "tonina", "lovett", "new"),
      Resource("apps/v1", "Deployment", "tonina", "black-angel", "new") }

Batches == UNION { [1..n -> SyncedResources] : n \in 0..MaxBatch }

\* The text of a file: the format it is written in and the object it
\* holds.  "{}" holds an object without properties, a text that is neither
\* JSON nor YAML holds nothing that parses.
NoObject == Resource(Undefined, Undefined, Undefined, Undefined, Undefined)
Junk == [text |-> "junk", obj |-> NoObject]

\* stringify(resource, undefined, 2) + "\n"
stringifySpec(resource) == [text |-> "json", obj |-> resource]

\* yaml.safeDump(resource)
safeDump(resource) == [text |-> "yaml", obj |-> resource]

ExtJson == <<".", "j", "s", "o", "n">>

\* /\.ya?ml$/.test(path)
IsYamlPath(path) ==
    EndsWith(path, <<".", "y", "a", "m", "l">>) \/ EndsWith(path, <<".", "y", "m", "l">>)

\* guid().split("-")[0], drawn from two values so that a drawn name can be
\* taken as well
Guids == { <<"a", "1">>, <<"b", "2">> }

\* The spec files a clone of the sync repo can hold, in the order
\* doWithFiles visits them: the JSON file named after the Service of
\* black-angel, a YAML file, and a file with a suffixed name.
StorePaths ==
    << specFileBasename(Resource("v1", "Service", "tonina", "black-angel", "new")) \o ExtJson,
       specFileBasename(Resource("v1", "Service", "tonina", "black-angel", "new"))
           \o <<"-", "a", "1">> \o ExtJson,
       Chars("tonina") \o <<".", "y", "a", "m", "l">> >>

StoredObjects ==
    { Resource("v1", "Service", "tonina", "black-angel", "old"),
      Resource("v1", "Service", "tonina", "black-angel", "new"),
      Resource("v1", "Service", "tonina", "lovett", "old"),
      NoObject }

StoreContents(path) ==
    { IF IsYamlPath(path) THEN safeDump(o) ELSE stringifySpec(o) : o \in StoredObjects }
        \cup {Junk}

\* The working copies: at most MaxFiles files, as a function from path to
\* content.
Stores ==
    { f \in UNION { [ps -> UNION { StoreContents(StorePaths[i]) : i \in 1..Len(StorePaths) }] :
                      ps \in SUBSET {StorePaths[i] : i \in 1..Len(StorePaths)} } :
        /\ Cardinality(DOMAIN f) <= MaxFiles
        /\ \A p \in DOMAIN f : f[p] \in StoreContents(p) }

\* parseKubernetesSpecFile throws on a text that does not parse
Parses(content) == content.text # "junk"

\* the scan given up at the first file that does not parse
RECURSIVE IndexFromAborting(_, _)
IndexFromAborting(paths, files) ==
    IF paths = <<>> THEN <<>>
    ELSE IF Head(paths) \notin DOMAIN files \/ ~MatchesSpecGlob(Head(paths))
         THEN IndexFromAborting(Tail(paths), files)
    ELSE IF ~Parses(files[Head(paths)]) THEN <<>>
    ELSE <<[file |-> Head(paths), spec |-> files[Head(paths)].obj]>>
             \o IndexFromAborting(Tail(paths), files)

\* doWithFiles(syncProject, k8sSpecGlob, ...): the entry {file, spec} of
\* every spec file that parses, in the order the files are visited
RECURSIVE IndexFrom(_, _)
IndexFrom(paths, files) ==
    IF paths = <<>> THEN <<>>
    ELSE (IF /\ Head(paths) \in DOMAIN files
             /\ MatchesSpecGlob(Head(paths))
             /\ Parses(files[Head(paths)])
          THEN <<[file |-> Head(paths), spec |-> files[Head(paths)].obj]>>
          ELSE <<>>) \o IndexFrom(Tail(paths), files)

\* `Failed to commit and push resource changes to sync repo: ${e.message}`
CommitPushFailure(cause) ==
    <<"Failed to commit and push resource changes to sync repo", cause>>

\* the catch of syncApplication swallowing the error
SyncApplicationFailureSwallowed(message) == NoThrow

\* `Failed to perform sync resources from ${slug} to sync repo ...: ${e.message}`
SyncApplicationFailure(message) == <<"Failed to perform sync resources">> \o message

\* the verb of a delete for every action
SyncVerbDelete(action) == "Delete"

\* [syncAction, syncVerb] = (action === "delete") ? [..., "Delete"] : [..., "Update"]
SyncVerb(action) == IF action = "delete" THEN "Delete" ELSE "Update"

\* p.getFile finding no file at all
GetFileNever(files, path) == FALSE

\* p.getFile(path): is there a file at path
GetFile(files, path) == path \in DOMAIN files

\* file.setContent(content) and p.addFile(path, content)
WriteFile(files, path, content) ==
    [p \in DOMAIN files \cup {path} |-> IF p = path THEN content ELSE files[p]]

\* p.deleteFile leaving the file where it is
DeleteFileKept(files, path) == files

\* p.deleteFile(path)
DeleteFile(files, path) == [p \in DOMAIN files \ {path} |-> files[p]]

\* syncProject.isClean() answering false whatever the working copy holds
isCleanNever(files, head) == FALSE

\* syncProject.isClean(): the working copy holds what the commit cloned holds
isClean(files, head) == files = head

\* specRoot + specExt
SpecPath(resource) == specFileBasename(resource) \o ExtJson

\* specRoot + "-" + guid().split("-")[0] + specExt
SuffixedSpecPath(resource, guid) == specFileBasename(resource) \o <<"-">> \o guid \o ExtJson

\* the text resourceUpserted writes to a file it matched
SpecString(path, resource) ==
    IF IsYamlPath(path) THEN safeDump(resource) ELSE stringifySpec(resource)

\* the application the resources belong to
SyncedApp == CHOOSE app \in Apps : TRUE

NoGit == <<>>

\* the sync options: the secretKey, empty when none is configured
NoKey == <<>>
SecretKeys == { NoKey, <<"k", "e", "y">> }

RevIdle ==
    /\ ropts = [secretKey |-> NoKey]
    /\ raction = "upsert"
    /\ rbatch = <<>>
    /\ rhead = <<>>
    /\ rfiles = <<>>
    /\ rspecs = <<>>
    /\ rpc = "done"
    /\ ridx = 0
    /\ rpath = <<>>
    /\ rtried = {}
    /\ rops = <<>>
    /\ rgit = NoGit
    /\ rthrown = NoThrow

RevInit ==
    /\ ropts = [secretKey |-> NoKey]
    /\ raction \in {"upsert", "delete"}
    /\ rbatch \in Batches
    /\ rhead \in Stores
    /\ rfiles = rhead
    /\ rspecs = <<>>
    /\ rpc = "call"
    /\ ridx = 0
    /\ rpath = <<>>
    /\ rtried = {}
    /\ rops = <<>>
    /\ rgit = NoGit
    /\ rthrown = NoThrow

\* syncApplication up to doWithProject: nothing is done without a sync
\* repo in the configuration or without resources
SyncApplication ==
    /\ rpc = "call"
    /\ \E configured \in BOOLEAN :
           rpc' = IF ~configured \/ Len(rbatch) < 1 THEN "done" ELSE "load"
    /\ UNCHANGED <<ropts, raction, rbatch, rhead, rfiles, rspecs, ridx, rpath, rtried, rops, rgit,
                   rthrown, outsideRev>>

\* projectLoader.doWithProject: the clone of the sync repo, which can fail
DoWithProject ==
    /\ rpc = "load"
    /\ \E cloned \in BOOLEAN :
           IF cloned
           THEN rpc' = "index" /\ UNCHANGED rthrown
           ELSE rpc' = "done" /\ rthrown' = SyncApplicationFailure(<<"clone">>)
    /\ UNCHANGED <<ropts, raction, rbatch, rhead, rfiles, rspecs, ridx, rpath, rtried, rops, rgit,
                   outsideRev>>

\* syncResources: the index of the spec files
IndexSpecs ==
    /\ rpc = "index"
    /\ rspecs' = IndexFrom(StorePaths, rfiles)
    /\ ridx' = 1
    /\ rpc' = "loop"
    /\ UNCHANGED <<ropts, raction, rbatch, rhead, rfiles, rpath, rtried, rops, rgit, rthrown,
                   outsideRev>>

\* resourceUpserted for the next resource: the matched file is rewritten,
\* without a match the search for a name starts
ResourceUpserted ==
    /\ rpc = "loop"
    /\ raction # "delete"
    /\ ridx <= Len(rbatch)
    /\ LET fs == matchSpec(rbatch[ridx], rspecs)
       IN  IF fs # 0
           THEN /\ rfiles' = WriteFile(rfiles, rspecs[fs].file,
                                       SpecString(rspecs[fs].file, rbatch[ridx]))
                /\ rops' = Append(rops, [op |-> "setContent", path |-> rspecs[fs].file,
                                         resource |-> ridx, tried |-> {}])
                /\ ridx' = ridx + 1
                /\ UNCHANGED <<rpc, rpath, rtried>>
           ELSE /\ rpath' = SpecPath(rbatch[ridx])
                /\ rtried' = {}
                /\ rpc' = "probe"
                /\ UNCHANGED <<rfiles, rops, ridx>>
    /\ UNCHANGED <<ropts, raction, rbatch, rhead, rspecs, rgit, rthrown, outsideRev>>

\* while (await p.getFile(specPath)): the name is taken, another is drawn
SpecPathTaken ==
    /\ rpc = "probe"
    /\ GetFile(rfiles, rpath)
    /\ \E guid \in Guids : rpath' = SuffixedSpecPath(rbatch[ridx], guid)
    /\ rtried' = rtried \cup {rpath}
    /\ UNCHANGED <<ropts, raction, rbatch, rhead, rfiles, rspecs, rpc, ridx, rops, rgit, rthrown,
                   outsideRev>>

\* the name is free: p.addFile(specPath, stringifySpec(resource))
AddFile ==
    /\ rpc = "probe"
    /\ ~GetFile(rfiles, rpath)
    /\ rfiles' = WriteFile(rfiles, rpath, stringifySpec(rbatch[ridx]))
    /\ rops' = Append(rops, [op |-> "addFile", path |-> rpath, resource |-> ridx,
                             tried |-> rtried])
    /\ ridx' = ridx + 1
    /\ rpath' = <<>>
    /\ rtried' = {}
    /\ rpc' = "loop"
    /\ UNCHANGED <<ropts, raction, rbatch, rhead, rspecs, rgit, rthrown, outsideRev>>

\* resourceDeleted for the next resource.  The index is the one built
\* before the loop: the file of a match can be gone already, and deleteFile
\* of a file that is not there either does nothing or throws.
ResourceDeleted ==
    /\ rpc = "loop"
    /\ raction = "delete"
    /\ ridx <= Len(rbatch)
    /\ LET fs == matchSpec(rbatch[ridx], rspecs)
       IN  IF fs = 0
           THEN /\ ridx' = ridx + 1
                /\ UNCHANGED <<rfiles, rops, rpc, rthrown>>
           ELSE /\ rops' = Append(rops, [op |-> "deleteFile", path |-> rspecs[fs].file,
                                         resource |-> ridx, tried |-> {}])
                /\ \/ /\ rfiles' = DeleteFile(rfiles, rspecs[fs].file)
                      /\ ridx' = ridx + 1
                      /\ UNCHANGED <<rpc, rthrown>>
                   \/ /\ ~GetFile(rfiles, rspecs[fs].file)
                      /\ rthrown' = SyncApplicationFailure(<<"deleteFile">>)
                      /\ rpc' = "done"
                      /\ UNCHANGED <<rfiles, ridx>>
    /\ UNCHANGED <<ropts, raction, rbatch, rhead, rspecs, rpath, rtried, rgit, outsideRev>>

\* after the loop: if (await syncProject.isClean()) { return; }
IsClean ==
    /\ rpc = "loop"
    /\ ridx > Len(rbatch)
    /\ rpc' = IF isClean(rfiles, rhead) THEN "done" ELSE "commit"
    /\ UNCHANGED <<ropts, raction, rbatch, rhead, rfiles, rspecs, ridx, rpath, rtried, rops, rgit,
                   rthrown, outsideRev>>

\* syncProject.commit(message), which can fail
Commit ==
    /\ rpc = "commit"
    /\ \E committed \in BOOLEAN :
           /\ rgit' = Append(rgit, [cmd |-> "commit", ok |-> committed,
                                    message |-> SyncCommitMessage(SyncVerb(raction), SyncedApp),
                                    processed |-> ridx - 1])
           /\ IF committed
              THEN rpc' = "push" /\ UNCHANGED rthrown
              ELSE /\ rpc' = "done"
                   /\ rthrown' = SyncApplicationFailure(CommitPushFailure("commit"))
    /\ UNCHANGED <<ropts, raction, rbatch, rhead, rfiles, rspecs, ridx, rpath, rtried, rops, outsideRev>>

\* syncProject.push(), which can fail
Push ==
    /\ rpc = "push"
    /\ \E pushed \in BOOLEAN :
           /\ rgit' = Append(rgit, [cmd |-> "push", ok |-> pushed, message |-> <<>>,
                                    processed |-> ridx - 1])
           /\ rthrown' = IF pushed THEN rthrown
                         ELSE SyncApplicationFailure(CommitPushFailure("push"))
    /\ rpc' = "done"
    /\ UNCHANGED <<ropts, raction, rbatch, rhead, rfiles, rspecs, ridx, rpath, rtried, rops, outsideRev>>

RevNext ==
    \/ SyncApplication
    \/ DoWithProject
    \/ IndexSpecs
    \/ ResourceUpserted
    \/ SpecPathTaken
    \/ AddFile
    \/ ResourceDeleted
    \/ IsClean
    \/ Commit
    \/ Push

(***************************************************************************)
(* Resource Applier: upsertIngress and deleteIngress (lib/kubernetes/      *)
(* ingress), deleteApplication (lib/kubernetes/application)                *)
(***************************************************************************)
\* the kinds deleteApplication deletes, in the order of its try blocks
DeleteOrder == <<"ingress", "deployment", "secrets", "service", "rbac">>
Kinds == { DeleteOrder[i] : i \in 1..Len(DeleteOrder) }

\* a request: are its port and its path there
Requests == [port : BOOLEAN, path : BOOLEAN]
FullRequest == [port |-> TRUE, path |-> TRUE]

\* a call of the cluster API and whether it succeeded
ApiCall(op, kind, ok) == [op |-> op, kind |-> kind, ok |-> ok]

\* what a failed call of the cluster API throws
ApiError(op, kind) == <<op, kind>>

\* upsertIngress returning early for a missing port only
IngressDisabledByPort(req) == ~req.port

\* if (!req.port) { return undefined; } if (!req.path) { return undefined; }
IngressDisabled(req) == ~req.port \/ ~req.path

\* upsertIngress creating whatever the read found
UpsertCallCreate(found) == "create"

\* upsertIngress after the read: the catch block creates, the code after
\* the try patches
UpsertCall(found) == IF found THEN "patch" ELSE "create"

\* deleteIngress deleting whatever the read found
DeleteCallAlways(found) == "delete"

\* deleteIngress after the read: the catch block returns undefined
DeleteCall(found) == IF found THEN "delete" ELSE "return"

\* logRetry giving up after the first failure
logRetryNever(outcome, tries) == FALSE

\* logRetry(f, desc): f is called again after a transient failure while
\* attempts are left
logRetryAgain(outcome, tries) == outcome = "transient" /\ tries + 1 < MaxAttempts

\* `Failed to delete ingress ${slug}: ${e.message}` and the like
DeleteFailure(kind, cause) == <<"Failed to delete", kind>> \o cause

\* `Failed to delete application '${reqString(req)}': ${errs.map(e => e.message).join("; ")}`
DeleteApplicationFailure(es) == <<"Failed to delete application", es>>

\* `Failed to load Kubernetes config to delete ${slug}`: e.message is
\* called as a function, which throws a TypeError
ConfigFailure == <<"TypeError">>

\* deleteApplication stopping at the first failure
deleteApplicationDoneOnError(k, es) == k > Len(DeleteOrder) \/ Len(es) > 0

\* the five try blocks of deleteApplication are behind it
deleteApplicationDone(k, es) == k > Len(DeleteOrder)

\* deleted.filter(d => !!d)
RECURSIVE FilterDefined(_)
FilterDefined(deleted) ==
    IF deleted = <<>> THEN <<>>
    ELSE (IF Head(deleted) = Undefined THEN <<>> ELSE <<Head(deleted)>>)
             \o FilterDefined(Tail(deleted))

\* a finished invocation
Invocation(op, req, calls, ret, thrown, blocks) ==
    [op |-> op, req |-> req, calls |-> calls, ret |-> ret, thrown |-> thrown,
     blocks |-> blocks]

ApplyIdle ==
    /\ aop = "none"
    /\ areq = FullRequest
    /\ acluster = {}
    /\ apc = "idle"
    /\ akind = 0
    /\ atries = 0
    /\ acalls = <<>>
    /\ adeleted = <<>>
    /\ aerrs = <<>>
    /\ alog = <<>>

ApplyInit ==
    /\ aop = "none"
    /\ areq = FullRequest
    /\ acluster \in SUBSET {"ingress"}
    /\ apc = "idle"
    /\ akind = 0
    /\ atries = 0
    /\ acalls = <<>>
    /\ adeleted = <<>>
    /\ aerrs = <<>>
    /\ alog = <<>>

DeleteInit ==
    /\ aop = "none"
    /\ areq = FullRequest
    /\ acluster \in SUBSET Kinds
    /\ apc = "idle"
    /\ akind = 0
    /\ atries = 0
    /\ acalls = <<>>
    /\ adeleted = <<>>
    /\ aerrs = <<>>
    /\ alog = <<>>

\* upsertIngress or deleteIngress is over: it returns to its caller, or
\* into the first try block of deleteApplication
IngressReturns(calls, ret, thrown) ==
    /\ acalls' = calls
    /\ atries' = 0
    /\ IF aop = "deleteApplication"
       THEN /\ IF thrown = NoThrow
               THEN adeleted' = Append(adeleted, ret) /\ UNCHANGED aerrs
               ELSE aerrs' = Append(aerrs, DeleteFailure("ingress", thrown)) /\ UNCHANGED adeleted
            /\ akind' = akind + 1
            /\ apc' = "kinds"
            /\ UNCHANGED alog
       ELSE /\ alog' = Append(alog, Invocation(aop, areq, calls, ret, thrown, 0))
            /\ apc' = "idle"
            /\ UNCHANGED <<adeleted, aerrs, akind>>

\* upsertIngress up to the read: nothing is done without a port or a path
UpsertIngress ==
    /\ apc = "idle"
    /\ Len(alog) < MaxInvocations
    /\ \E req \in Requests :
           /\ areq' = req
           /\ aop' = "upsertIngress"
           /\ IF IngressDisabled(req)
              THEN /\ alog' = Append(alog, Invocation("upsertIngress", req, <<>>, Undefined,
                                                      NoThrow, 0))
                   /\ UNCHANGED apc
              ELSE /\ apc' = "read"
                   /\ UNCHANGED alog
    /\ acalls' = <<>>
    /\ UNCHANGED <<acluster, akind, atries, adeleted, aerrs, outsideApply>>

\* deleteIngress up to the read
DeleteIngress ==
    /\ apc = "idle"
    /\ Len(alog) < MaxInvocations
    /\ aop' = "deleteIngress"
    /\ areq' = FullRequest
    /\ apc' = "read"
    /\ acalls' = <<>>
    /\ UNCHANGED <<acluster, akind, atries, adeleted, aerrs, alog, outsideApply>>

\* req.clients.ext.readNamespacedIngress(req.name, req.ns): it succeeds
\* only for an ingress that is there, and every failure is caught.
\* upsertIngress goes on to patch or to create, deleteIngress to delete or
\* returns undefined.
ReadIngress ==
    /\ apc = "read"
    /\ \E found \in BOOLEAN :
           /\ found => "ingress" \in acluster
           /\ LET calls == Append(acalls, ApiCall("read", "ingress", found))
              IN  IF aop = "upsertIngress"
                  THEN /\ apc' = UpsertCall(found)
                       /\ acalls' = calls
                       /\ UNCHANGED <<akind, atries, adeleted, aerrs, alog>>
                  ELSE IF DeleteCall(found) = "delete"
                  THEN /\ apc' = "delete"
                       /\ acalls' = calls
                       /\ UNCHANGED <<akind, atries, adeleted, aerrs, alog>>
                  ELSE IngressReturns(calls, Undefined, NoThrow)
    /\ UNCHANGED <<aop, areq, acluster, outsideApply>>

\* One attempt of a call wrapped in logRetry: it succeeds, fails for good,
\* or fails and is made again.  A create succeeds only for an ingress that
\* is not there.
RetriedCall(op, cluster) ==
    /\ \E outcome \in {"ok", "transient", "rejected"} :
           /\ (outcome = "ok" /\ op = "create") => "ingress" \notin acluster
           /\ LET calls == Append(acalls, ApiCall(op, "ingress", outcome = "ok"))
              IN  IF outcome = "ok"
                  THEN /\ acluster' = cluster
                       /\ IngressReturns(calls, "ingress", NoThrow)
                  ELSE IF logRetryAgain(outcome, atries)
                  THEN /\ acalls' = calls
                       /\ atries' = atries + 1
                       /\ UNCHANGED <<acluster, apc, akind, adeleted, aerrs, alog>>
                  ELSE /\ IngressReturns(calls, Undefined, ApiError(op, "ingress"))
                       /\ UNCHANGED acluster
    /\ UNCHANGED <<aop, areq, outsideApply>>

\* logRetry(() => req.clients.ext.createNamespacedIngress(req.ns, spec), ...)
CreateIngress ==
    /\ apc = "create"
    /\ RetriedCall("create", acluster \cup {"ingress"})

\* logRetry(() => req.clients.ext.patchNamespacedIngress(req.name, req.ns, spec), ...)
PatchIngress ==
    /\ apc = "patch"
    /\ RetriedCall("patch", acluster)

\* logRetry(() => req.clients.ext.deleteNamespacedIngress(req.name, req.ns), ...)
DeleteNamespacedIngress ==
    /\ apc = "delete"
    /\ RetriedCall("delete", acluster \ {"ingress"})

\* deleteApplication, called once, up to its first try block:
\* loadKubeConfig can throw
DeleteApplication ==
    /\ apc = "idle"
    /\ alog = <<>>
    /\ aop' = "deleteApplication"
    /\ areq' = FullRequest
    /\ acalls' = <<>>
    /\ adeleted' = <<>>
    /\ aerrs' = <<>>
    /\ \E loaded \in BOOLEAN :
           IF loaded
           THEN /\ akind' = 1
                /\ apc' = "read"
                /\ UNCHANGED alog
           ELSE /\ alog' = Append(alog, Invocation("deleteApplication", FullRequest, <<>>,
                                                   <<>>, ConfigFailure, 0))
                /\ UNCHANGED <<akind, apc>>
    /\ UNCHANGED <<acluster, atries, outsideApply>>

\* The try blocks of the deployment, the secrets, the service and the RBAC
\* resources: the delete returns what it deleted, returns nothing after a
\* read that found nothing, or throws.
DeleteKind ==
    /\ apc = "kinds"
    /\ ~deleteApplicationDone(akind, aerrs)
    /\ LET kind == DeleteOrder[akind]
           many == kind \in {"secrets", "rbac"}
       IN  \E outcome \in {"deleted", "absent", "failed"} :
               /\ outcome = "deleted" => kind \in acluster
               /\ acalls' = Append(acalls, IF outcome = "absent"
                                            THEN ApiCall("read", kind, FALSE)
                                            ELSE ApiCall("delete", kind, outcome = "deleted"))
               /\ acluster' = IF outcome = "deleted" THEN acluster \ {kind} ELSE acluster
               /\ adeleted' = IF outcome = "deleted" THEN Append(adeleted, kind)
                              ELSE IF outcome = "absent" /\ ~many
                              THEN Append(adeleted, Undefined)
                              ELSE adeleted
               /\ aerrs' = IF outcome = "failed"
                           THEN Append(aerrs, DeleteFailure(kind, ApiError("delete", kind)))
                           ELSE aerrs
    /\ akind' = akind + 1
    /\ UNCHANGED <<aop, areq, apc, atries, alog, outsideApply>>

\* after the try blocks: throw the collected errors as one, or return
\* what was deleted
DeleteApplicationEnd ==
    /\ apc = "kinds"
    /\ deleteApplicationDone(akind, aerrs)
    /\ alog' = Append(alog,
                      IF Len(aerrs) > 0
                      THEN Invocation(aop, areq, acalls, <<>>, DeleteApplicationFailure(aerrs),
                                      akind - 1)
                      ELSE Invocation(aop, areq, acalls, FilterDefined(adeleted), NoThrow,
                                      akind - 1))
    /\ apc' = "idle"
    /\ UNCHANGED <<aop, areq, acluster, akind, atries, acalls, adeleted, aerrs, outsideApply>>

IngressNext ==
    \/ UpsertIngress
    \/ DeleteIngress
    \/ ReadIngress
    \/ CreateIngress
    \/ PatchIngress
    \/ DeleteNamespacedIngress

DeleteNext ==
    \/ DeleteApplication
    \/ ReadIngress
    \/ DeleteNamespacedIngress
    \/ DeleteKind
    \/ DeleteApplicationEnd

(***************************************************************************)
(* API clients: patchWithHeaders (lib/kubernetes/clients) and the calls    *)
(* that overlap on one client                                              *)
(***************************************************************************)
ContentType == "Content-Type"
StrategicMergePatch == "application/strategic-merge-patch+json"

\* { ...headers, "Content-Type": "application/strategic-merge-patch+json" }
WithPatchHeader(headers) ==
    [n \in DOMAIN headers \cup {ContentType} |->
        IF n = ContentType THEN StrategicMergePatch ELSE headers[n]]

NoHeaders == <<>>

\* the defaultHeaders a client can have before a call
ClientHeaders ==
    { NoHeaders,
      [n \in {"Accept"} |-> "application/json"],
      [n \in {ContentType} |-> "application/json"] }

\* the calls that can overlap on the client
Callers == 1..MaxCalls

\* a call: "patch" through patchWithHeaders or "other" straight to the
\* client, where it stands, the oldDefaultHeaders it saved, the headers
\* its request was built with, and the defaultHeaders it left behind
NotCalled == [kind |-> "none", pc |-> "idle", old |-> NoHeaders, used |-> NoHeaders,
              after |-> NoHeaders]

ClientIdle ==
    /\ hbase = NoHeaders
    /\ hdefault = NoHeaders
    /\ hcall = [p \in Callers |-> NotCalled]

ClientInit ==
    /\ hbase \in ClientHeaders
    /\ hdefault = hbase
    /\ hcall = [p \in Callers |-> NotCalled]

\* patchWithHeaders up to the await: the headers are saved and replaced,
\* and patcher.apply builds its request from the defaultHeaders it finds
PatchWithHeaders ==
    \E p \in Callers :
        /\ hcall[p].pc = "idle"
        /\ hdefault' = WithPatchHeader(hdefault)
        /\ hcall' = [hcall EXCEPT ![p] = [kind |-> "patch", pc |-> "awaiting",
                                          old |-> hdefault,
                                          used |-> WithPatchHeader(hdefault),
                                          after |-> NoHeaders]]
        /\ UNCHANGED <<hbase, outsideClient>>

\* the promise of the patcher resolves: api.defaultHeaders = oldDefaultHeaders
PatcherResolves ==
    \E p \in Callers :
        /\ hcall[p].pc = "awaiting"
        /\ hcall[p].kind = "patch"
        /\ hdefault' = hcall[p].old
        /\ hcall' = [hcall EXCEPT ![p].pc = "returned", ![p].after = hcall[p].old]
        /\ UNCHANGED <<hbase, outsideClient>>

\* the promise of the patcher rejects: the await throws and the rest of
\* patchWithHeaders is not run
PatcherRejects ==
    \E p \in Callers :
        /\ hcall[p].pc = "awaiting"
        /\ hcall[p].kind = "patch"
        /\ hcall' = [hcall EXCEPT ![p].pc = "threw", ![p].after = hdefault]
        /\ UNCHANGED <<hbase, hdefault, outsideClient>>

\* a call that is no patch (a read, a create, a delete) on the same client:
\* its request is built from the defaultHeaders it finds
OtherCall ==
    \E p \in Callers :
        /\ hcall[p].pc = "idle"
        /\ hcall' = [hcall EXCEPT ![p] = [kind |-> "other", pc |-> "awaiting",
                                          old |-> hdefault, used |-> hdefault,
                                          after |-> NoHeaders]]
        /\ UNCHANGED <<hbase, hdefault, outsideClient>>

\* the call that is no patch returns or throws
OtherCallEnds ==
    \E p \in Callers :
        /\ hcall[p].pc = "awaiting"
        /\ hcall[p].kind = "other"
        /\ \E end \in {"returned", "threw"} :
               hcall' = [hcall EXCEPT ![p].pc = end, ![p].after = hdefault]
        /\ UNCHANGED <<hbase, hdefault, outsideClient>>

ClientNext ==
    \/ PatchWithHeaders
    \/ PatcherResolves
    \/ PatcherRejects
    \/ OtherCall
    \/ OtherCallEnds

(***************************************************************************)
(* Secret Cipher: encrypt, decrypt and deriveKey (lib/sync/goals)          *)
(***************************************************************************)
\* The character o with an acute accent, U+00F3
OAcute == "U+00F3"
\* U+FFFD, what a decoder puts in the place of bytes that are no character
Replacement == "U+FFFD"

Digits == <<"0", "1", "2", "3", "4", "5", "6", "7", "8", "9">>
HexDigits == Digits \o <<"a", "b", "c", "d", "e", "f">>
Base64Alphabet == UpperCase \o LowerCase \o Digits \o <<"+", "/">>

IndexOf(s, c) == CHOOSE i \in 1..Len(s) : s[i] = c
Member(s, c) == \E i \in 1..Len(s) : s[i] = c

\* the code point of a character
CodePoint(c) ==
    IF Member(UpperCase, c) THEN 64 + IndexOf(UpperCase, c)
    ELSE IF Member(LowerCase, c) THEN 96 + IndexOf(LowerCase, c)
    ELSE IF Member(Digits, c) THEN 47 + IndexOf(Digits, c)
    ELSE CASE c = " " -> 32
           [] c = "+" -> 43
           [] c = "." -> 46
           [] c = "/" -> 47
           [] c = "=" -> 61
           [] c = OAcute -> 243
           [] OTHER -> 65533

KnownChars ==
    { Base64Alphabet[i] : i \in 1..Len(Base64Alphabet) } \cup {" ", ".", "=", OAcute}

CharOf(cp) ==
    IF \E c \in KnownChars : CodePoint(c) = cp
    THEN CHOOSE c \in KnownChars : CodePoint(c) = cp
    ELSE Replacement

\* the bytes of a string in UTF-8, as cipher.update(text) and scrypt take
\* a string
RECURSIVE Utf8Encode(_)
Utf8Encode(text) ==
    IF text = <<>> THEN <<>>
    ELSE LET cp == CodePoint(Head(text))
         IN  (IF cp < 128 THEN <<cp>>
              ELSE IF cp < 2048 THEN <<192 + (cp \div 64), 128 + (cp % 64)>>
              ELSE <<224 + (cp \div 4096), 128 + ((cp \div 64) % 64), 128 + (cp % 64)>>)
             \o Utf8Encode(Tail(text))

IsContinuation(b) == b >= 128 /\ b < 192

\* buffer.toString("utf8")
RECURSIVE Utf8Decode(_)
Utf8Decode(bytes) ==
    IF bytes = <<>> THEN <<>>
    ELSE LET b == Head(bytes)
         IN  IF b < 128 THEN <<CharOf(b)>> \o Utf8Decode(Tail(bytes))
             ELSE IF b >= 192 /\ b < 224 /\ Len(bytes) >= 2 /\ IsContinuation(bytes[2])
             THEN <<CharOf((b - 192) * 64 + (bytes[2] - 128))>>
                      \o Utf8Decode(SubSeq(bytes, 3, Len(bytes)))
             ELSE IF /\ b >= 224 /\ b < 240 /\ Len(bytes) >= 3
                     /\ IsContinuation(bytes[2]) /\ IsContinuation(bytes[3])
             THEN <<CharOf((b - 224) * 4096 + (bytes[2] - 128) * 64 + (bytes[3] - 128))>>
                      \o Utf8Decode(SubSeq(bytes, 4, Len(bytes)))
             ELSE <<Replacement>> \o Utf8Decode(Tail(bytes))

\* buffer.toString("hex")
RECURSIVE Hex(_)
Hex(bytes) ==
    IF bytes = <<>> THEN <<>>
    ELSE <<HexDigits[(Head(bytes) \div 16) + 1], HexDigits[(Head(bytes) % 16) + 1]>>
             \o Hex(Tail(bytes))

\* buffer.toString("base64")
RECURSIVE Base64Encode(_)
Base64Encode(bytes) ==
    IF bytes = <<>> THEN <<>>
    ELSE IF Len(bytes) = 1
    THEN <<Base64Alphabet[(bytes[1] \div 4) + 1], Base64Alphabet[((bytes[1] % 4) * 16) + 1],
           "=", "=">>
    ELSE IF Len(bytes) = 2
    THEN <<Base64Alphabet[(bytes[1] \div 4) + 1],
           Base64Alphabet[((bytes[1] % 4) * 16) + (bytes[2] \div 16) + 1],
           Base64Alphabet[((bytes[2] % 16) * 4) + 1], "=">>
    ELSE <<Base64Alphabet[(bytes[1] \div 4) + 1],
           Base64Alphabet[((bytes[1] % 4) * 16) + (bytes[2] \div 16) + 1],
           Base64Alphabet[((bytes[2] % 16) * 4) + (bytes[3] \div 64) + 1],
           Base64Alphabet[(bytes[3] % 64) + 1]>>
             \o Base64Encode(SubSeq(bytes, 4, Len(bytes)))

\* the six-bit values of a base64 text: characters outside the alphabet are
\* skipped and the text ends at the first "="
RECURSIVE Sextets(_)
Sextets(text) ==
    IF text = <<>> \/ Head(text) = "=" THEN <<>>
    ELSE (IF Member(Base64Alphabet, Head(text))
          THEN <<IndexOf(Base64Alphabet, Head(text)) - 1>> ELSE <<>>)
             \o Sextets(Tail(text))

RECURSIVE SextetBytes(_)
SextetBytes(s) ==
    IF Len(s) < 2 THEN <<>>
    ELSE IF Len(s) = 2 THEN <<s[1] * 4 + (s[2] \div 16)>>
    ELSE IF Len(s) = 3 THEN <<s[1] * 4 + (s[2] \div 16), (s[2] % 16) * 16 + (s[3] \div 4)>>
    ELSE <<s[1] * 4 + (s[2] \div 16), (s[2] % 16) * 16 + (s[3] \div 4), (s[3] % 4) * 64 + s[4]>>
             \o SextetBytes(SubSeq(s, 5, Len(s)))

\* Buffer.from(text, "base64")
Base64Decode(text) == SextetBytes(Sextets(text))

\* the lengths of the key, the initialisation vector, the salt and a cipher
\* block of aes-256-cbc
KeyLength == 32
IvLength == 16
SaltLength == 16
BlockSize == 16

RECURSIVE Repeat(_, _)
Repeat(s, n) == IF n = 0 THEN <<>> ELSE s \o Repeat(s, n - 1)

RECURSIVE Sum(_)
Sum(bytes) == IF bytes = <<>> THEN 0 ELSE Head(bytes) + Sum(Tail(bytes))

\* crypto.scrypt(password, salt, length): a deterministic function of its
\* three arguments to `length` bytes
scrypt(password, salt, length) ==
    [i \in 1..length |->
        (Sum(Utf8Encode(password)) * 31 + Sum(Utf8Encode(salt)) * 17
             + Len(password) + i * 7) % 256]

\* (key.repeat(Math.floor(saltLength / key.length) + 1)).substring(0, saltLength);
\* key.length is not 0
deriveKey(key, length) ==
    LET salt == SubSeq(Repeat(key, (SaltLength \div Len(key)) + 1), 1, SaltLength)
    IN  scrypt(key, salt, length)

RECURSIVE XorBits(_, _, _)
XorBits(a, b, n) ==
    IF n = 0 THEN 0
    ELSE (((a % 2) + (b % 2)) % 2) + 2 * XorBits(a \div 2, b \div 2, n - 1)

XorBlock(a, b) == [i \in 1..BlockSize |-> XorBits(a[i], b[i], 8)]

\* The block cipher: for every key a permutation of the blocks, with its
\* inverse.
EncryptBlock(k, block) ==
    [i \in 1..BlockSize |-> (block[(i % BlockSize) + 1] + k[i] + k[i + BlockSize]) % 256]

DecryptBlock(k, block) ==
    [j \in 1..BlockSize |->
        LET i == IF j = 1 THEN BlockSize ELSE j - 1
        IN  (block[i] + 512 - k[i] - k[i + BlockSize]) % 256]

\* the padding cipher.final() adds: n bytes of value n, 1 <= n <= BlockSize
Pkcs7Pad(bytes) ==
    LET n == BlockSize - (Len(bytes) % BlockSize)
    IN  bytes \o [i \in 1..n |-> n]

Pkcs7Padded(bytes) ==
    /\ Len(bytes) > 0
    /\ Len(bytes) % BlockSize = 0
    /\ bytes[Len(bytes)] \in 1..BlockSize
    /\ \A i \in (Len(bytes) - bytes[Len(bytes)] + 1)..Len(bytes) : bytes[i] = bytes[Len(bytes)]

Pkcs7Unpad(bytes) == SubSeq(bytes, 1, Len(bytes) - bytes[Len(bytes)])

\* cipher block chaining
RECURSIVE CbcEncrypt(_, _, _)
CbcEncrypt(k, prev, bytes) ==
    IF bytes = <<>> THEN <<>>
    ELSE LET c == EncryptBlock(k, XorBlock(SubSeq(bytes, 1, BlockSize), prev))
         IN  c \o CbcEncrypt(k, c, SubSeq(bytes, BlockSize + 1, Len(bytes)))

RECURSIVE CbcDecrypt(_, _, _)
CbcDecrypt(k, prev, bytes) ==
    IF bytes = <<>> THEN <<>>
    ELSE LET c == SubSeq(bytes, 1, BlockSize)
         IN  XorBlock(DecryptBlock(k, c), prev)
                 \o CbcDecrypt(k, c, SubSeq(bytes, BlockSize + 1, Len(bytes)))

\* what a call of encrypt or decrypt comes to: a value, or an error thrown
Returned(value) == [ok |-> TRUE, value |-> value]
RangeError == [ok |-> FALSE, value |-> <<"R", "a", "n", "g", "e">>]
BadDecrypt == [ok |-> FALSE, value |-> <<"b", "a", "d">>]

\* encrypt(text, key); key.repeat(Infinity) throws for the empty key
encrypt(text, key) ==
    IF key = <<>> THEN RangeError
    ELSE LET derivedKey == deriveKey(key, KeyLength)
             iv == deriveKey(Hex(derivedKey), IvLength)
         IN  Returned(Base64Encode(CbcEncrypt(derivedKey, iv, Pkcs7Pad(Utf8Encode(text)))))

\* decrypt with the initialisation vector taken as all zero
decryptZeroIv(text, key) ==
    IF key = <<>> THEN RangeError
    ELSE LET derivedKey == deriveKey(key, KeyLength)
             iv == [i \in 1..IvLength |-> 0]
             encryptedText == Base64Decode(text)
             decrypted == CbcDecrypt(derivedKey, iv, encryptedText)
         IN  IF Len(encryptedText) % BlockSize # 0 \/ ~Pkcs7Padded(decrypted)
             THEN BadDecrypt
             ELSE Returned(Utf8Decode(Pkcs7Unpad(decrypted)))

\* decrypt(text, key); decipher.final() throws on a text that is no whole
\* number of blocks or does not end in padding
decrypt(text, key) ==
    IF key = <<>> THEN RangeError
    ELSE LET derivedKey == deriveKey(key, KeyLength)
             iv == deriveKey(Hex(derivedKey), IvLength)
             encryptedText == Base64Decode(text)
             decrypted == CbcDecrypt(derivedKey, iv, encryptedText)
         IN  IF Len(encryptedText) % BlockSize # 0 \/ ~Pkcs7Padded(decrypted)
             THEN BadDecrypt
             ELSE Returned(Utf8Decode(Pkcs7Unpad(decrypted)))

\* The texts and keys: short texts over a letter, the base64 padding
\* character and a character of two bytes, a secret value of two blocks,
\* and keys shorter and longer than the salt, and the empty key.
CipherChars == {"a", "=", OAcute}
SecretValue ==
    <<"Q", "2", "F", "s", "e", "X", "B", "z", "b", "y", "B", "C", "b", "H", "V", "l",
      "c", "w", "=", "=">>
CipherTexts == UNION { [1..n -> CipherChars] : n \in 0..MaxText } \cup {SecretValue}
LongKey ==
    <<"1", "0", ".", " ", "H", "i", "s", "t", "o", "r", "i", "a", " ", "D", "e", " ",
      "U", "n">>
CipherKeys == { <<>>, <<"k">>, <<"k", "e", "y">>, <<"L", "i", "m", OAcute, "n">>, LongKey }

CipherIdle ==
    /\ ctext = <<>>
    /\ ckey = <<>>
    /\ cenc = <<>>
    /\ cdkey = <<>>
    /\ cdec = <<>>
    /\ cpc = "done"

CipherInit ==
    /\ ctext \in CipherTexts
    /\ ckey \in CipherKeys
    /\ cenc = <<>>
    /\ cdkey = <<>>
    /\ cdec = <<>>
    /\ cpc = "call"

\* encrypt(ctext, ckey)
Encrypt ==
    /\ cpc = "call"
    /\ LET r == encrypt(ctext, ckey)
       IN  /\ cenc' = r.value
           /\ cpc' = IF r.ok THEN "encrypted" ELSE "threw"
    /\ UNCHANGED <<ctext, ckey, cdkey, cdec, outsideCipher>>

\* decrypt(cenc, key), with the key of the encryption or another
Decrypt ==
    /\ cpc = "encrypted"
    /\ \E key \in CipherKeys :
           LET r == decrypt(cenc, key)
           IN  /\ cdkey' = key
               /\ cdec' = r.value
               /\ cpc' = IF r.ok THEN "decrypted" ELSE "failed"
    /\ UNCHANGED <<ctext, ckey, cenc, outsideCipher>>

CipherNext == Encrypt \/ Decrypt

(***************************************************************************)
(* Reverse Sync Writer on resources whose text matters: the properties in  *)
(* the order they were inserted, and the data of a Secret                  *)
(***************************************************************************)
\* The rest of a resource where its text matters: its own property names
\* in the order they were inserted, and the name/value pairs of its data.
Body(keys, data) == [keys |-> keys, data |-> data]

\* The order of the properties of the Secret of the tests, and the sorted
\* order.
InsertionOrders ==
    { <<"apiVersion", "kind", "type", "metadata", "data">>,
      <<"apiVersion", "data", "kind", "metadata", "type">> }

ClearValue == <<"a", "=">>

WrittenResources ==
    { Resource("v1", "Secret", "tonina", "black-angel", Body(o, <<<<"Track02", v>>>>)) :
          o \in InsertionOrders, v \in {ClearValue, SecretValue} }
        \cup { Resource("v1", "Service", "tonina", "black-angel",
                        Body(<<"apiVersion", "kind", "metadata">>, <<>>)) }

WrittenBatches == UNION { [1..n -> WrittenResources] : n \in 1..MaxBatch }

\* The clones the resources are written to: nothing, a YAML file holding
\* the Secret, a JSON file named after the Service that holds the Service
\* or does not parse.
StoredSecret ==
    Resource("v1", "Secret", "tonina", "black-angel",
             Body(<<"apiVersion", "data", "kind", "metadata", "type">>, <<<<"Track02", <<"o">>>>>>))

StoredService ==
    Resource("v1", "Service", "tonina", "black-angel", Body(<<"apiVersion", "kind">>, <<>>))

WrittenStores ==
    { f \in UNION { [ps -> {safeDump(StoredSecret), stringifySpec(StoredService), Junk}] :
                      ps \in SUBSET {StorePaths[1], StorePaths[3]} } :
        \A p \in DOMAIN f :
            IF IsYamlPath(p) THEN f[p] = safeDump(StoredSecret) ELSE f[p] # safeDump(StoredSecret) }

WriteInit ==
    /\ ropts \in [secretKey : SecretKeys]
    /\ raction \in {"upsert", "delete"}
    /\ rbatch \in WrittenBatches
    /\ rhead \in WrittenStores
    /\ rfiles = rhead
    /\ rspecs = <<>>
    /\ rpc = "call"
    /\ ridx = 0
    /\ rpath = <<>>
    /\ rtried = {}
    /\ rops = <<>>
    /\ rgit = NoGit
    /\ rthrown = NoThrow

(***************************************************************************)
(* Startup of the sync: syncRepoStartupListener and sdmRepoSync            *)
(* (lib/sync/startup)                                                      *)
(***************************************************************************)
\* _.get(sdm, "configuration.sdm.k8s.options.sync.intervalMinutes"): not
\* set (0 stands for it, both fail `interval && interval > 0`) or positive
Intervals == {0, 1}

\* The processes the listener runs in
Processes == [local : BOOLEAN, master : BOOLEAN, provider : BOOLEAN, interval : Intervals]

\* an invocation of sdmRepoSync: who made it and where it is
Invocation31(by, at) == [by |-> by, pc |-> at]

\* the timer is registered whatever the interval
TimerRegisteredAlways(interval) == TRUE

\* if (interval && interval > 0)
TimerRegistered(interval) == interval > 0

\* the positions of s with the state at
At(s, at) == { i \in 1..Len(s) : s[i] = at }

\* the invocations of sdmRepoSync that have not returned
Pending(invs) == { i \in 1..Len(invs) : invs[i].pc \notin {"returned", "threw"} }

SchedIdle ==
    /\ sproc = [local |-> TRUE, master |-> FALSE, provider |-> FALSE, interval |-> 0]
    /\ spc = "done"
    /\ stimer = FALSE
    /\ sinv = <<>>
    /\ sjobs = <<>>

SchedInit ==
    /\ sproc \in Processes
    /\ spc = "start"
    /\ stimer = FALSE
    /\ sinv = <<>>
    /\ sjobs = <<>>

\* syncRepoStartupListener up to `await queryForScmProvider(sdm)`; in local
\* mode it returns at once
StartupListener ==
    /\ spc = "start"
    /\ spc' = IF sproc.local THEN "done" ELSE "query"
    /\ UNCHANGED <<sproc, stimer, sinv, sjobs, outsideSched>>

\* queryForScmProvider has resolved: the listener returns when the sync
\* repo was not found or the process is not the cluster master, else it
\* calls sdmRepoSync, which runs up to `await createJob(...)`
QueryForScmProvider ==
    /\ spc = "query"
    /\ IF sproc.provider /\ sproc.master
       THEN /\ sinv' = Append(sinv, Invocation31("startup", "creating"))
            /\ spc' = "sync"
       ELSE /\ spc' = "done"
            /\ UNCHANGED sinv
    /\ UNCHANGED <<sproc, stimer, sjobs, outsideSched>>

\* createJob resolves: the job of the kubernetesSync command exists, its
\* task is run by the SDM later; sdmRepoSync goes on to
\* `await context.lifecycle.dispose()`
CreateJobResolves ==
    \E i \in 1..Len(sinv) :
        /\ sinv[i].pc = "creating"
        /\ sjobs' = Append(sjobs, "created")
        /\ sinv' = [sinv EXCEPT ![i].pc = "disposing"]
        /\ UNCHANGED <<sproc, spc, stimer, outsideSched>>

\* createJob rejects: sdmRepoSync throws, and so does the listener when the
\* call was its own
CreateJobRejects ==
    \E i \in 1..Len(sinv) :
        /\ sinv[i].pc = "creating"
        /\ sinv' = [sinv EXCEPT ![i].pc = "threw"]
        /\ spc' = IF sinv[i].by = "startup" THEN "done" ELSE spc
        /\ UNCHANGED <<sproc, stimer, sjobs, outsideSched>>

\* dispose has resolved or rejected (the failure is logged): sdmRepoSync
\* returns; the listener, when the call was its own, reads the interval,
\* registers the timer when it is positive, and returns
SdmRepoSyncReturns ==
    \E i \in 1..Len(sinv) :
        /\ sinv[i].pc = "disposing"
        /\ sinv' = [sinv EXCEPT ![i].pc = "returned"]
        /\ IF sinv[i].by = "startup"
           THEN /\ stimer' = TimerRegistered(sproc.interval)
                /\ spc' = "done"
           ELSE UNCHANGED <<stimer, spc>>
        /\ UNCHANGED <<sproc, sjobs, outsideSched>>

\* the interval has passed: the triggered listener calls sdmRepoSync, which
\* runs up to `await createJob(...)`
TimerTick ==
    /\ stimer
    /\ Len(sinv) <= MaxTicks
    /\ sinv' = Append(sinv, Invocation31("timer", "creating"))
    /\ UNCHANGED <<sproc, spc, stimer, sjobs, outsideSched>>

\* the SDM starts the task of a job: a sync cycle begins
JobStarts ==
    \E j \in 1..Len(sjobs) :
        /\ sjobs[j] = "created"
        /\ sjobs' = [sjobs EXCEPT ![j] = "running"]
        /\ UNCHANGED <<sproc, spc, stimer, sinv, outsideSched>>

\* the sync cycle of a job is over
JobEnds ==
    \E j \in 1..Len(sjobs) :
        /\ sjobs[j] = "running"
        /\ sjobs' = [sjobs EXCEPT ![j] = "done"]
        /\ UNCHANGED <<sproc, spc, stimer, sinv, outsideSched>>

SchedNext ==
    \/ StartupListener
    \/ QueryForScmProvider
    \/ CreateJobResolves
    \/ CreateJobRejects
    \/ SdmRepoSyncReturns
    \/ TimerTick
    \/ JobStarts
    \/ JobEnds

(***************************************************************************)
(* One sync cycle: repoSync around syncApply (lib/sync/sync)               *)
(***************************************************************************)
CloneError == <<"clone failed">>

DisposeError == <<"dispose failed">>

\* `Failed to perform sync using repo ${opts.repo.owner}/${opts.repo.repo}: ${e.message}`
RepoSyncFailure(thrown) == <<"Failed to perform sync using repo">> \o thrown

\* `Failed to clean up sync repo: ${e.message}`
CleanUpFailure(thrown) == <<"Failed to clean up sync repo">> \o thrown

\* repoSync disposing after a sync that did not fail only
repoSyncSettledNoFinally(thrown) ==
    IF thrown = NoThrow THEN [log |-> <<>>, next |-> "disposing"]
    ELSE [log |-> <<[level |-> "error", message |-> RepoSyncFailure(thrown)]>>,
          next |-> "returned"]

\* try { await doWithProject(...) } catch (e) { logger.error } finally {:
\* what repoSync logs and where it goes on when doWithProject has settled
repoSyncSettled(thrown) ==
    IF thrown = NoThrow THEN [log |-> <<>>, next |-> "disposing"]
    ELSE [log |-> <<[level |-> "error", message |-> RepoSyncFailure(thrown)]>>,
          next |-> "disposing"]

WrapIdle ==
    /\ wpc = "idle"
    /\ wdisposed = 0
    /\ wlog = <<>>

\* repoSync is called on a working copy that is not cloned yet
RepoSyncInit ==
    /\ bopts \in [secretKey : BOOLEAN]
    /\ bstream \in SpecFileStreams
    /\ bspecs = <<>>
    /\ bpc = "clone"
    /\ bidx = 0
    /\ blog = <<>>
    /\ berrors = <<>>
    /\ bthrown = NoThrow
    /\ wpc = "call"
    /\ wdisposed = 0
    /\ wlog = <<>>

\* repoSync up to `await ...doWithProject(projectLoadingParameters, syncApply(opts))`
RepoSync ==
    /\ wpc = "call"
    /\ wpc' = "loading"
    /\ UNCHANGED <<wdisposed, wlog, bulkVars, outsideWrap>>

\* doWithProject has cloned the sync repo and calls syncApply(opts) on it
DoWithProjectCloned ==
    /\ wpc = "loading"
    /\ bpc = "clone"
    /\ bpc' = "start"
    /\ wpc' = "applying"
    /\ UNCHANGED <<wdisposed, wlog, bopts, bstream, bspecs, bidx, blog, berrors, bthrown,
                   outsideWrap>>

\* doWithProject rejects, the clone failed: catch, then the finally block
\* up to `await context.lifecycle.dispose()`
DoWithProjectRejects ==
    /\ wpc = "loading"
    /\ bpc = "clone"
    /\ bpc' = "done"
    /\ bthrown' = CloneError
    /\ wlog' = wlog \o repoSyncSettled(CloneError).log
    /\ wpc' = repoSyncSettled(CloneError).next
    /\ UNCHANGED <<wdisposed, bopts, bstream, bspecs, bidx, blog, berrors, outsideWrap>>

\* syncApply has returned or thrown and doWithProject hands that on: catch
\* when it threw, then the finally block up to the await of dispose
SyncApplySettled ==
    /\ wpc = "applying"
    /\ bpc = "done"
    /\ wlog' = wlog \o repoSyncSettled(bthrown).log
    /\ wpc' = repoSyncSettled(bthrown).next
    /\ UNCHANGED <<wdisposed, bulkVars, outsideWrap>>

\* context.lifecycle.dispose() has resolved, or rejected and the failure is
\* logged as a warning; repoSync returns
Dispose ==
    /\ wpc = "disposing"
    /\ wdisposed' = wdisposed + 1
    /\ \E ok \in BOOLEAN :
           wlog' = IF ok THEN wlog
                   ELSE Append(wlog, [level |-> "warn", message |-> CleanUpFailure(DisposeError)])
    /\ wpc' = "returned"
    /\ UNCHANGED <<bulkVars, outsideWrap>>

RepoSyncNext ==
    \/ RepoSync
    \/ DoWithProjectCloned
    \/ DoWithProjectRejects
    \/ SortSpecsEnd
    \/ SortSpecsError
    \/ SyncApplyFile
    \/ SyncApplyEnd
    \/ SyncApplySettled
    \/ Dispose

(***************************************************************************)
(* Resource Applier: upsertApplication (lib/kubernetes/application)        *)
(***************************************************************************)
\* upsertApplication upserting the deployment before the secrets
UpsertOrderDeploymentFirst ==
    <<"namespace", "rbac", "service", "deployment", "secrets", "ingress">>

\* The upsert functions in the order upsertApplication awaits them
UpsertOrder == <<"namespace", "rbac", "service", "secrets", "deployment", "ingress">>

\* What an upsert function resolves with, as far as upsertApplication
\* looks at it: nothing (undefined), or objects of which `body` is read
Response(body) == [defined |-> TRUE, body |-> body]
NoResponse == [defined |-> FALSE, body |-> Undefined]

\* upsertIngress resolves with the spec it used, a V1beta1Ingress: it has
\* no property `body`
IngressSpec == Response(Undefined)

\* upsertIngress resolving with the spec whatever the request
upsertIngressResultSpec(app) == IngressSpec

\* upsertIngress: undefined without port or path, else the spec
upsertIngressResult(app) == IF IngressDisabled(app) THEN NoResponse ELSE IngressSpec

\* What the upsert function of a kind can resolve with: the list of the
\* objects upsertApplication reads `body` of.  upsertRbac resolves with an
\* object of responses of which some may be undefined (filtered out before
\* `body` is read), upsertSecrets with an array of responses.
UpsertResults(kind, app) ==
    IF kind = "ingress" THEN { <<upsertIngressResult(app)>> }
    ELSE IF kind \in {"rbac", "secrets"} THEN { <<>>, <<Response(kind)>> }
    ELSE { <<Response(kind)>> }

\* does the upsert function call the cluster API
CallsCluster(kind, app) == kind # "ingress" \/ ~IngressDisabled(app)

BodyTypeError == <<"TypeError", "Cannot read property 'body' of undefined">>

\* r.body of every object of the list: it throws for undefined
RECURSIVE Bodies(_)
Bodies(rs) ==
    IF rs = <<>> THEN [thrown |-> NoThrow, bodies |-> <<>>]
    ELSE IF ~Head(rs).defined THEN [thrown |-> BodyTypeError, bodies |-> <<>>]
    ELSE LET rest == Bodies(Tail(rs))
         IN  [thrown |-> rest.thrown,
              bodies |-> IF rest.thrown = NoThrow THEN <<Head(rs).body>> \o rest.bodies
                         ELSE <<>>]

\* e.message = `Failed to load Kubernetes config to deploy ${app.ns}/${app.name}: ${e.message}`
LoadConfigFailure == <<"Failed to load Kubernetes config to deploy", "ns/name">>

\* e.message = `Failed to upsert '${reqString(req)}': ${e.message}`
UpsertFailure(req, thrown) == <<"Failed to upsert", req, thrown>>

\* what upsertApplication returned or threw
Outcome(thrown, value) == [thrown |-> thrown, value |-> value]
NoOutcome == Outcome(NoThrow, <<>>)

UpsIdle ==
    /\ uapp = FullRequest
    /\ upc = "idle"
    /\ ustep = 0
    /\ ucalls = <<>>
    /\ ures = <<>>
    /\ uret = NoOutcome

UpsInit ==
    /\ uapp \in Requests
    /\ upc = "call"
    /\ ustep = 0
    /\ ucalls = <<>>
    /\ ures = <<>>
    /\ uret = NoOutcome

\* upsertApplication up to the first await: loadKubeConfig returns or
\* throws, and the catch block throws the error on
UpsertApplication ==
    /\ upc = "call"
    /\ \E loaded \in BOOLEAN :
           IF loaded
           THEN /\ upc' = "steps"
                /\ ustep' = 1
                /\ UNCHANGED uret
           ELSE /\ upc' = "done"
                /\ uret' = Outcome(LoadConfigFailure, <<>>)
                /\ UNCHANGED ustep
    /\ UNCHANGED <<uapp, ucalls, ures, outsideUps>>

\* `await upsertX(req)`: the upsert function of the next kind is called
UpsertCalled ==
    /\ upc = "steps"
    /\ ucalls' = Append(ucalls, [kind |-> UpsertOrder[ustep],
                                 cluster |-> CallsCluster(UpsertOrder[ustep], uapp),
                                 outcome |-> "pending"])
    /\ upc' = "awaiting"
    /\ UNCHANGED <<uapp, ustep, ures, uret, outsideUps>>

\* the upsert function rejects: the catch block throws the error on
UpsertRejected ==
    /\ upc = "awaiting"
    /\ CallsCluster(UpsertOrder[ustep], uapp)
    /\ ucalls' = [ucalls EXCEPT ![Len(ucalls)].outcome = "rejected"]
    /\ uret' = Outcome(UpsertFailure(uapp, ApiError("upsert", UpsertOrder[ustep])), <<>>)
    /\ upc' = "done"
    /\ UNCHANGED <<uapp, ustep, ures, outsideUps>>

\* the upsert function resolves: the bodies are pushed to k8sResources, or
\* reading `body` throws and the catch block throws the error on; after
\* the ingress the resources that are defined are returned
UpsertResolved ==
    /\ upc = "awaiting"
    /\ \E rs \in UpsertResults(UpsertOrder[ustep], uapp) :
         LET read == Bodies(rs)
         IN  /\ ucalls' = [ucalls EXCEPT ![Len(ucalls)].outcome = "resolved"]
             /\ IF read.thrown # NoThrow
                THEN /\ uret' = Outcome(UpsertFailure(uapp, read.thrown), <<>>)
                     /\ upc' = "done"
                     /\ UNCHANGED <<ustep, ures>>
                ELSE /\ ures' = ures \o read.bodies
                     /\ ustep' = ustep + 1
                     /\ IF ustep = Len(UpsertOrder)
                        THEN /\ uret' = Outcome(NoThrow, FilterDefined(ures'))
                             /\ upc' = "done"
                        ELSE /\ upc' = "steps"
                             /\ UNCHANGED uret
    /\ UNCHANGED <<uapp, outsideUps>>

UpsNext ==
    \/ UpsertApplication
    \/ UpsertCalled
    \/ UpsertRejected
    \/ UpsertResolved

(***************************************************************************)
(* Reverse Sync Writer, run twice: syncResources(resources, "upsert") on   *)
(* a working copy and again on what the first run left                     *)
(* (lib/sync/application)                                                  *)
(***************************************************************************)
\* The resources of a batch that is synced twice: those of SyncedResources
\* and an older state of one of them
RerunResources ==
    SyncedResources \cup { Resource("v1", "Service", "tonina", "black-angel", "old") }

RerunBatches == UNION { [1..n -> RerunResources] : n \in 1..MaxBatch }

\* the orders of a set of paths
RECURSIVE Orders(_)
Orders(paths) ==
    IF paths = {} THEN {<<>>}
    ELSE UNION { { <<p>> \o rest : rest \in Orders(paths \ {p}) } : p \in paths }

\* the place of a path in an order
PlaceIn(order, path) == CHOOSE i \in 1..Len(order) : order[i] = path

\* doWithFiles(syncProject, k8sSpecGlob, ...) visits the files in the order
\* the file system lists them: the files of StorePaths in the order they
\* were visited in before, a file that is new at any place
ScanOrders(paths) ==
    { order \in Orders(paths) :
        \A i, j \in 1..Len(StorePaths) :
            (i < j /\ StorePaths[i] \in paths /\ StorePaths[j] \in paths)
                => PlaceIn(order, StorePaths[i]) < PlaceIn(order, StorePaths[j]) }

\* the loop of syncResources over the batch is behind it
LoopOver == ridx > Len(rbatch)

\* the last call of push succeeded: the remote holds the working copy
Pushed(git) == git # NoGit /\ git[Len(git)].cmd = "push" /\ git[Len(git)].ok

RerunIdle ==
    /\ rrun = 0
    /\ rfirst = <<>>

RerunInit ==
    /\ ropts = [secretKey |-> NoKey]
    /\ raction = "upsert"
    /\ rbatch \in RerunBatches
    /\ rhead \in Stores
    /\ rfiles = rhead
    /\ rspecs = <<>>
    /\ rpc = "call"
    /\ ridx = 0
    /\ rpath = <<>>
    /\ rtried = {}
    /\ rops = <<>>
    /\ rgit = NoGit
    /\ rthrown = NoThrow
    /\ rrun = 1
    /\ rfirst = <<>>

\* syncResources(resources, "upsert") is run again with the same batch on
\* the working copy the first run left, up to its loop: the index is built
\* from the files that are there now
SyncResourcesAgain ==
    /\ rrun = 1
    /\ rpc = "done"
    /\ LoopOver
    /\ rrun' = 2
    /\ rfirst' = rfiles
    /\ rhead' = IF Pushed(rgit) THEN rfiles ELSE rhead
    /\ \E order \in ScanOrders(DOMAIN rfiles) : rspecs' = IndexFrom(order, rfiles)
    /\ ridx' = 1
    /\ rpc' = "loop"
    /\ rops' = <<>>
    /\ rgit' = NoGit
    /\ rthrown' = NoThrow
    /\ UNCHANGED <<ropts, raction, rbatch, rfiles, rpath, rtried, outsideRerun>>

RerunNext ==
    \/ SyncApplication
    \/ DoWithProject
    \/ IndexSpecs
    \/ ResourceUpserted
    \/ SpecPathTaken
    \/ AddFile
    \/ IsClean
    \/ Commit
    \/ Push
    \/ SyncResourcesAgain

(***************************************************************************)
(* API clients: makeApiClients and the patch methods called through the    *)
(* clients it returns (lib/kubernetes/clients)                             *)
(***************************************************************************)
\* The patch methods of the resources of an application and the client of
\* KubernetesClients each is called on
PatchMethods ==
    { [client |-> "core", method |-> "patchNamespacedSecret"],
      [client |-> "core", method |-> "patchNamespacedService"],
      [client |-> "core", method |-> "patchNamespacedServiceAccount"],
      [client |-> "apps", method |-> "patchNamespacedDeployment"],
      [client |-> "ext", method |-> "patchNamespacedIngress"],
      [client |-> "rbac", method |-> "patchNamespacedRole"],
      [client |-> "rbac", method |-> "patchNamespacedRoleBinding"],
      [client |-> "rbac", method |-> "patchClusterRole"],
      [client |-> "rbac", method |-> "patchClusterRoleBinding"] }

\* The class that overrides the patch methods of a client
PatchClass(client) ==
    CASE client = "core" -> "Core_v1Api_Patch"
      [] client = "apps" -> "Apps_v1Api_Patch"
      [] client = "ext" -> "Extensions_v1beta1Api_Patch"
      [] client = "rbac" -> "RbacAuthorization_v1Api_Patch"

\* makeApiClients: the class each client is an instance of,
\* kc.makeApiClient(k8s.Core_v1Api) and so on
makeApiClients(client) ==
    CASE client = "core" -> "Core_v1Api"
      [] client = "apps" -> "Apps_v1Api"
      [] client = "ext" -> "Extensions_v1beta1Api"
      [] client = "rbac" -> "RbacAuthorization_v1Api"

\* What runs when the method is called on an instance of the class: the
\* override of the _Patch class, which goes through patchWithHeaders, or
\* the method of the library
Dispatch(class, call) ==
    IF class = PatchClass(call.client) THEN "patchWithHeaders" ELSE "library"

\* The headers of the request of a patch call and the defaultHeaders
\* during it
PatchHeaders(via, headers) ==
    IF via = "patchWithHeaders" THEN WithPatchHeader(headers) ELSE headers

\* A patch method is called on a client makeApiClients returned, up to the
\* await of the request
ClientPatch ==
    \E p \in Callers, call \in PatchMethods :
        LET via == Dispatch(makeApiClients(call.client), call)
        IN  /\ hcall[p].pc = "idle"
            /\ hdefault' = PatchHeaders(via, hdefault)
            /\ hcall' = [hcall EXCEPT ![p] = [kind |-> call.method, pc |-> "awaiting",
                                              old |-> hdefault,
                                              used |-> PatchHeaders(via, hdefault),
                                              after |-> NoHeaders]]
            /\ UNCHANGED <<hbase, outsideClient>>

\* The request of the patch call is answered: the call returns or throws;
\* patchWithHeaders, where it ran, puts the old headers back when it returns
ClientPatchEnds ==
    \E p \in Callers, call \in PatchMethods :
        LET via == Dispatch(makeApiClients(call.client), call)
        IN  /\ hcall[p].pc = "awaiting"
            /\ hcall[p].kind = call.method
            /\ \E end \in {"returned", "threw"} :
                 /\ hdefault' = IF via = "patchWithHeaders" /\ end = "returned"
                                THEN hcall[p].old ELSE hdefault
                 /\ hcall' = [hcall EXCEPT ![p].pc = end, ![p].after = hdefault']
            /\ UNCHANGED <<hbase, outsideClient>>

MakeClientsNext ==
    \/ ClientPatch
    \/ ClientPatchEnds

(***************************************************************************)
(* The specifications: each runs one part of the program and leaves the    *)
(* variables of the other parts at rest.                                   *)
(***************************************************************************)
LastIdle == SchedIdle /\ WrapIdle /\ UpsIdle /\ RerunIdle

LaterIdle == CipherIdle /\ ApplyIdle /\ ClientIdle /\ LastIdle

EarlierIdle ==
    DiffIdle /\ SyncIdle /\ BulkIdle /\ MatchIdle /\ NameIdle /\ RevIdle
        /\ CipherIdle /\ ApplyIdle /\ ClientIdle

SchedStart == SchedInit /\ EarlierIdle /\ WrapIdle /\ UpsIdle /\ RerunIdle

RerunStart ==
    RerunInit /\ DiffIdle /\ SyncIdle /\ BulkIdle /\ MatchIdle /\ NameIdle
        /\ CipherIdle /\ ApplyIdle /\ ClientIdle /\ SchedIdle /\ WrapIdle /\ UpsIdle

SpecRerun == RerunStart /\ [][RerunNext]_vars

RepoSyncStart ==
    RepoSyncInit /\ DiffIdle /\ SyncIdle /\ MatchIdle /\ NameIdle /\ RevIdle
        /\ CipherIdle /\ ApplyIdle /\ ClientIdle /\ SchedIdle /\ UpsIdle /\ RerunIdle

SpecRepoSync == RepoSyncStart /\ [][RepoSyncNext]_vars

UpsStart == UpsInit /\ EarlierIdle /\ SchedIdle /\ WrapIdle /\ RerunIdle

SpecUpsert == UpsStart /\ [][UpsNext]_vars

SpecStartup == SchedStart /\ [][SchedNext]_vars

ExtIdle == BulkIdle /\ MatchIdle /\ NameIdle /\ RevIdle /\ LaterIdle

BulkStart == BulkInit /\ DiffIdle /\ SyncIdle /\ MatchIdle /\ NameIdle /\ RevIdle
    /\ LaterIdle

SpecBulk == BulkStart /\ [][BulkNext]_vars

MatchStart == MatchInit /\ DiffIdle /\ SyncIdle /\ BulkIdle /\ NameIdle /\ RevIdle
    /\ LaterIdle

SpecMatch == MatchStart /\ [][MatchNext]_vars

NameStart == NameInit /\ DiffIdle /\ SyncIdle /\ BulkIdle /\ MatchIdle /\ RevIdle
    /\ LaterIdle

SpecName == NameStart /\ [][NameNext]_vars

RevStart == RevInit /\ DiffIdle /\ SyncIdle /\ BulkIdle /\ MatchIdle /\ NameIdle
    /\ LaterIdle

SpecRev == RevStart /\ [][RevNext]_vars

WriteStart ==
    WriteInit /\ DiffIdle /\ SyncIdle /\ BulkIdle /\ MatchIdle /\ NameIdle /\ LaterIdle

SpecWrite == WriteStart /\ [][RevNext]_vars

CipherStart ==
    CipherInit /\ DiffIdle /\ SyncIdle /\ BulkIdle /\ MatchIdle /\ NameIdle /\ RevIdle
        /\ ApplyIdle /\ ClientIdle /\ LastIdle

ClientStart ==
    ClientInit /\ DiffIdle /\ SyncIdle /\ BulkIdle /\ MatchIdle /\ NameIdle /\ RevIdle
        /\ CipherIdle /\ ApplyIdle /\ LastIdle

SpecClient == ClientStart /\ [][ClientNext]_vars

SpecMakeClients == ClientStart /\ [][MakeClientsNext]_vars

ApplyStart ==
    ApplyInit /\ DiffIdle /\ SyncIdle /\ BulkIdle /\ MatchIdle /\ NameIdle /\ RevIdle
        /\ CipherIdle /\ ClientIdle /\ LastIdle

SpecApply == ApplyStart /\ [][IngressNext]_vars

DeleteStart ==
    DeleteInit /\ DiffIdle /\ SyncIdle /\ BulkIdle /\ MatchIdle /\ NameIdle /\ RevIdle
        /\ CipherIdle /\ ClientIdle /\ LastIdle

SpecDelete == DeleteStart /\ [][DeleteNext]_vars

SpecCipher == CipherStart /\ [][CipherNext]_vars

Init == SyncInit /\ DiffIdle /\ ExtIdle

Next ==
    \/ DevPush
    \/ ReverseSync
    \/ PushTest
    \/ NoGoals
    \/ K8sSyncStart
    \/ K8sSyncNoProject
    \/ K8sSyncCall
    \/ K8sSyncChange
    \/ K8sSyncFinish
    \/ GoalCompleted

Spec == Init /\ [][Next]_vars

(***************************************************************************)
(* The Change Extractor on its own                                         *)
(***************************************************************************)
DiffInit ==
    /\ sha \in Shas
    /\ entries \in EntrySeqs
    /\ \/ /\ entries = <<>>
          /\ diff \in BlankTexts
       \/ /\ entries # <<>>
          /\ \E trailer \in {<<>>, <<NL>>} : diff = RenderDiff(entries) \o trailer
    /\ parsed = <<>>
    /\ dpc = "start"
    /\ SyncIdle
    /\ ExtIdle

ParseDiff ==
    /\ dpc = "start"
    /\ parsed' = parseNameStatusDiff(sha, diff)
    /\ dpc' = "done"
    /\ UNCHANGED <<sha, entries, diff, syncVars, extVars>>

DiffNext == ParseDiff

SpecDiff == DiffInit /\ [][DiffNext]_vars

(***************************************************************************)
(* Properties of the Commit-Loop Guard and the forward sync (Spec)         *)
(***************************************************************************)
Tagged(commit) == Includes(commit.message, commitTag(cfg.name))

SameRepo(id, repo) ==
    /\ id.providerType = repo.providerType
    /\ id.owner = repo.owner
    /\ id.repo = repo.repo
    /\ id.branch = repo.branch

ReverseOnly(push) ==
    /\ push.commits # <<>>
    /\ \A i \in 1..Len(push.commits) : push.commits[i].origin = "reverse"

\* C1: every commit the reverse sync creates carries the sync-commit tag the
\* push test looks for, and a push made only of such commits never passes
\* the push test and never starts the forward sync.
C1_NoSyncLoop ==
    /\ \A i \in 1..Len(cur.commits) :
         cur.commits[i].origin = "reverse" => Tagged(cur.commits[i])
    /\ ReverseOnly(cur) => testResult # "true" /\ pc \notin {"changing", "awaiting", "done"}

C1_Witness ==
    /\ revResult = "pushed"
    /\ ReverseOnly(cur)
    /\ SameRepo(cur.id, cfg.repo)
    /\ pc = "tested"
    /\ testResult = "false"

DiffPushDone == pc \in {"changing", "awaiting", "done"} /\ result # Threw

\* C2: the change records diffPush returns all carry the hash of a commit of
\* the push whose message does not contain the sync-commit tag, and a commit
\* that carries other generated markers but not the tag is diffed: when its
\* git diff succeeds its changes are among the records.
C2_TaggedCommitsNotDiffed ==
    DiffPushDone =>
        /\ \A k \in 1..Len(changes) :
             \E i \in 1..Len(cur.commits) :
                /\ cur.commits[i].sha = changes[k].sha
                /\ ~Tagged(cur.commits[i])
        /\ \A i \in 1..Len(cur.commits) :
             ( /\ Includes(cur.commits[i].message, <<GeneratedMarker>>)
               /\ ~Tagged(cur.commits[i])
               /\ i \notin diffFailed )
             => \E k \in 1..Len(changes) : changes[k].sha = cur.commits[i].sha

C2_Witness ==
    /\ DiffPushDone
    /\ \E i, j \in 1..Len(cur.commits) :
         /\ Tagged(cur.commits[i])
         /\ Includes(cur.commits[j].message, <<AutofixMarker>>)
         /\ \E k \in 1..Len(changes) : changes[k].sha = cur.commits[j].sha
         /\ \A k \in 1..Len(changes) : changes[k].sha # cur.commits[i].sha

PushTested == pc = "tested"

\* C3: for a push to the configured sync repo the push test is true exactly
\* when some commit of the push has a message without the tag, and false
\* when every commit's message contains it.
C3_PushTestExcludesTagged ==
    (PushTested /\ isRemoteRepo(cfg.repo) /\ SameRepo(cur.id, cfg.repo)) =>
        /\ testResult = "true" <=> \E i \in 1..Len(cur.commits) : ~Tagged(cur.commits[i])
        /\ (\A i \in 1..Len(cur.commits) : Tagged(cur.commits[i])) => testResult = "false"

C3_Witness ==
    /\ PushTested /\ isRemoteRepo(cfg.repo) /\ SameRepo(cur.id, cfg.repo)
    /\ testResult = "true"
    /\ \E i, j \in 1..Len(cur.commits) : Tagged(cur.commits[i]) /\ ~Tagged(cur.commits[j])

\* C4: the push test is false for every push whose provider, owner, repo or
\* branch differs from the resolved sync repo, whatever the messages, and
\* the forward sync never runs for such a push.
C4_OtherRepoNeverSynced ==
    ~SameRepo(cur.id, cfg.repo) =>
        /\ (PushTested /\ isRemoteRepo(cfg.repo)) => testResult = "false"
        /\ testResult # "true"
        /\ pc \notin {"changing", "awaiting", "done"}

C4_Witness ==
    /\ PushTested /\ isRemoteRepo(cfg.repo)
    /\ cur.id.branch # cfg.repo.branch
    /\ cur.id.providerType = cfg.repo.providerType
    /\ cur.id.owner = cfg.repo.owner
    /\ cur.id.repo = cfg.repo.repo
    /\ \E i \in 1..Len(cur.commits) : ~Tagged(cur.commits[i])
    /\ testResult = "false"

\* C5: while the sync repo is not resolved to a remote repository the push
\* test fails with an error for every push, and no push is synced.
C5_UnresolvedRepoIsAnError ==
    ~isRemoteRepo(cfg.repo) =>
        /\ PushTested => testResult = "error"
        /\ pc \notin {"changing", "awaiting", "done"}

C5_Witness ==
    /\ ~isRemoteRepo(cfg.repo)
    /\ PushTested
    /\ SameRepo(cur.id, cfg.repo)
    /\ \E i \in 1..Len(cur.commits) : ~Tagged(cur.commits[i])
    /\ testResult = "error"

FailedChanges == { i \in 1..Len(attempted) : ~attempted[i].ok }

\* C10: when K8sSync returns, every change record was handed to
\* changeResource, in order, whatever failed before; the code is the number
\* of failed changes, the message has one entry per failed change naming its
\* kind, path and commit, and the result is code 0 with "Changed N
\* resources" exactly when no change failed.
C10_AllChangesAttempted ==
    (pc = "done" /\ result # Threw) =>
        /\ Len(attempted) = Len(changes)
        /\ \A i \in 1..Len(changes) : attempted[i].change = changes[i]
        /\ result.code = Cardinality(FailedChanges)
        /\ FailedChanges # {} =>
             /\ Len(result.message) = Cardinality(FailedChanges)
             /\ \A i \in FailedChanges :
                  \E m \in 1..Len(result.message) :
                     /\ result.message[m].verb = "Failed to"
                     /\ result.message[m].change = changes[i].change
                     /\ result.message[m].path = changes[i].path
                     /\ result.message[m].sha = changes[i].sha
        /\ FailedChanges = {} <=>
             result = [code |-> 0, message |-> <<[verb |-> "Changed", count |-> Len(changes)]>>]

C10_Witness ==
    /\ pc = "done"
    /\ Len(changes) >= 3
    /\ ~attempted[1].ok
    /\ attempted[2].ok
    /\ ~attempted[3].ok
    /\ result.code = 2

(***************************************************************************)
(* Properties of the Change Extractor (SpecDiff)                           *)
(***************************************************************************)
Parsed == dpc = "done"

IsBlank(text) == \A i \in 1..Len(text) : text[i] \in {SP, NL, TAB, NUL}

\* The paths of the inputs that are spec files at the root of the repository
RootSpecPaths ==
    { <<"a", ".", "y", "a", "m", "l">>,
      <<"b", ".", "y", "m", "l">>,
      <<"a", "a", ".", "j", "s", "o", "n">>,
      <<"s", " ", "t", ".", "j", "s", "o", "n">> }

SpecEntries == { i \in 1..Len(entries) : entries[i][2] \in RootSpecPaths }

\* Every record comes from an entry, with the kind of its status letter, and
\* every entry for a spec file has its record
KindsMapped ==
    /\ \A k \in 1..Len(parsed) :
         \E i \in SpecEntries :
            /\ entries[i][2] = parsed[k].path
            /\ entries[i][1] = <<"D">> => parsed[k].change = "delete"
            /\ entries[i][1] \in {<<"A">>, <<"M">>} => parsed[k].change = "apply"
    /\ \A i \in SpecEntries : \E k \in 1..Len(parsed) : parsed[k].path = entries[i][2]

ShaCarried == \A k \in 1..Len(parsed) : parsed[k].sha = sha

\* C6: a diff text that is empty or made of whitespace, newline and NUL
\* characters only yields the empty list of change records.
C6_BlankDiffYieldsNothing ==
    (Parsed /\ IsBlank(diff)) => parsed = <<>>

C6_Witness ==
    /\ Parsed
    /\ diff = <<NUL, NL>>
    /\ parsed = <<>>

\* C7 as stated: the records of the commit are in ascending path order, D
\* entries are deletes, A and M entries are applies, all carry the hash.
C7_SortedByPathOnly ==
    Parsed =>
        /\ \A k, l \in 1..Len(parsed) : k < l => LocaleLess(parsed[k].path, parsed[l].path)
        /\ KindsMapped
        /\ ShaCarried

\* C7, amended: the records of each change kind are in ascending path order
\* (the delete records are not merged into the apply records by path), D
\* entries are deletes, A and M entries are applies, all carry the hash.
C7_SortedByPathWithinKind ==
    Parsed =>
        /\ \A k, l \in 1..Len(parsed) :
             (k < l /\ parsed[k].change = parsed[l].change)
                => LocaleLess(parsed[k].path, parsed[l].path)
        /\ KindsMapped
        /\ ShaCarried

C7_Witness ==
    /\ Parsed
    /\ Len(parsed) = 3
    /\ \E i, j, k \in 1..Len(entries) :
         entries[i][1] = <<"A">> /\ entries[j][1] = <<"M">> /\ entries[k][1] = <<"D">>
    /\ parsed[1].change = "delete"
    /\ parsed[2].change = "apply"
    /\ LocaleLess(parsed[2].path, parsed[1].path)

\* The entries with those at positions i and j exchanged
Exchanged(es, i, j) ==
    [k \in 1..Len(es) |-> IF k = i THEN es[j] ELSE IF k = j THEN es[i] ELSE es[k]]

\* C8: every delete record precedes every apply record, each kind is in
\* ascending path order, and the result does not depend on the order of the
\* entries in the diff text: exchanging any two entries leaves it unchanged
\* (every order of the entries is reached by such exchanges).
C8_DeletesFirstAnyInputOrder ==
    Parsed =>
        /\ \A k, l \in 1..Len(parsed) :
             (parsed[k].change = "delete" /\ parsed[l].change = "apply") => k < l
        /\ \A k, l \in 1..Len(parsed) :
             (k < l /\ parsed[k].change = parsed[l].change)
                => LocaleLess(parsed[k].path, parsed[l].path)
        /\ \A i, j \in 1..Len(entries) :
             i < j => parseNameStatusDiff(sha, RenderDiff(Exchanged(entries, i, j))) = parsed

C8_Witness ==
    /\ Parsed
    /\ Len(entries) = 3
    /\ entries[1][1] = <<"A">> /\ entries[2][1] = <<"D">> /\ entries[3][1] = <<"D">>
    /\ LocaleLess(entries[3][2], entries[2][2])
    /\ Len(parsed) = 3
    /\ parsed[1].change = "delete" /\ parsed[2].change = "delete" /\ parsed[3].change = "apply"
    /\ LocaleLess(parsed[3].path, parsed[2].path)

\* C9: the records are exactly those of the entries whose path is at the
\* root of the repository and ends in .json, .yaml or .yml, each with the
\* path as it is in the diff, embedded spaces included.
C9_RootSpecPathsVerbatim ==
    (Parsed /\ entries # <<>>) =>
        /\ { parsed[k].path : k \in 1..Len(parsed) } = { entries[i][2] : i \in SpecEntries }
        /\ Len(parsed) = Cardinality(SpecEntries)

C9_Witness ==
    /\ Parsed
    /\ \E i, j, k \in 1..Len(entries) :
         /\ entries[i][2] = <<"s", " ", "t", ".", "j", "s", "o", "n">>
         /\ entries[j][2] = <<"i", "/", "l", ".", "j", "s", "o", "n">>
         /\ entries[k][2] = <<"f", "y", "m", "l">>
    /\ Len(parsed) = 1
    /\ parsed[1].path = <<"s", " ", "t", ".", "j", "s", "o", "n">>

(***************************************************************************)
(* Properties of the bulk apply (SpecBulk)                                 *)
(***************************************************************************)
BulkDone == bpc = "done" /\ bthrown # StreamError

FailedFiles == { i \in 1..Len(blog) : blog[i].failed # "none" }

SameIdentity(a, b) ==
    /\ a.apiVersion = b.apiVersion
    /\ a.kind = b.kind
    /\ a.metadata.name = b.metadata.name
    /\ a.metadata.namespace = b.metadata.namespace

\* C12: matchSpec returns nothing when no entry has the apiVersion, kind,
\* name and namespace of the resource; otherwise it returns the first entry
\* equal in all four, never one that differs in a field; an entry without
\* namespace matches only a resource without namespace.
C12_FirstIdentityMatch ==
    mpc = "done" =>
        /\ mresult \in 0..Len(mindex)
        /\ mresult = 0 <=> \A i \in 1..Len(mindex) : ~SameIdentity(mspec, mindex[i].spec)
        /\ mresult # 0 =>
            /\ SameIdentity(mspec, mindex[mresult].spec)
            /\ \A i \in 1..(mresult - 1) : ~SameIdentity(mspec, mindex[i].spec)
            /\ (mindex[mresult].spec.metadata.namespace = Undefined)
                   <=> (mspec.metadata.namespace = Undefined)

\* the second entry is returned, after a first one that differs only in
\* that it has no namespace
C12_Witness ==
    /\ mpc = "done"
    /\ mresult = 2
    /\ mspec.metadata.namespace # Undefined
    /\ mindex[1].spec = [mspec EXCEPT !.metadata.namespace = Undefined]

(***************************************************************************)
(* Properties of specFileBasename (SpecName)                               *)
(***************************************************************************)
\* The two-digit priority code of a kind, as the tests of specFileBasename
\* expect it.
PriorityPrefix(kind) ==
    CASE kind = "Namespace" -> <<"1", "0">>
      [] kind = "ServiceAccount" -> <<"2", "0">>
      [] kind \in {"Role", "ClusterRole"} -> <<"2", "5">>
      [] kind = "Service" -> <<"5", "0">>
      [] kind = "Deployment" -> <<"7", "0">>
      [] OTHER -> <<"5", "0">>

\* {priorityPrefix}_{namespace}_{name}_{kebabKind}, without the namespace
\* segment for a resource that has none
PrefixedBasename(resource) ==
    LET ns == IF resource.metadata.namespace # Undefined
              THEN Chars(resource.metadata.namespace) \o <<"_">>
              ELSE <<>>
    IN  PriorityPrefix(resource.kind) \o <<"_">> \o ns
            \o Chars(resource.metadata.name) \o <<"_">>
            \o ToLowerCase(KebabCase(Chars(resource.kind)))

\* C13: specFileBasename returns {priorityPrefix}_{namespace}_{name}_{kebabKind}
\* for a namespaced resource and {priorityPrefix}_{name}_{kebabKind} for a
\* cluster-scoped one, the kind in lower case with a hyphen at each
\* lower-to-upper boundary and the prefix the two-digit code of the kind.
C13_PrefixedUnderscoreBasename ==
    npc = "done" => \A i \in 1..2 : nbase[i] = PrefixedBasename(nres[i])

\* C14: the base name depends on the resource only, and the base name of a
\* resource with a namespace never equals that of a resource without one.
C14_NamespacedNeverEqualsClusterScoped ==
    npc = "done" =>
        /\ nres[1] = nres[2] => nbase[1] = nbase[2]
        /\ (nres[1].metadata.namespace # Undefined /\ nres[2].metadata.namespace = Undefined)
               => nbase[1] # nbase[2]

(***************************************************************************)
(* Properties of the Reverse Sync Writer (SpecRev)                         *)
(***************************************************************************)
Json == <<".", "j", "s", "o", "n">>

BatchDone == ridx > Len(rbatch)

ReturnedNormally == rpc = "done" /\ rthrown = NoThrow

GitCalls(cmd) == { k \in 1..Len(rgit) : rgit[k].cmd = cmd }

\* the files of the clone that parse and hold an object with the identity
\* of the resource
FilesOf(resource) ==
    { p \in DOMAIN rhead : rhead[p].text # "junk" /\ SameIdentity(rhead[p].obj, resource) }

\* C15: an upsert into an empty sync repo of N resources with pairwise
\* distinct base names creates exactly N files, each named
\* specFileBasename(resource) + ".json"; it then commits once, with a
\* message containing "Update", the namespace/name of the application and
\* the generated marker, and pushes.
C15_UpsertIntoEmptyStore ==
    (/\ raction = "upsert"
     /\ rhead = <<>>
     /\ ridx >= 1
     /\ \A i, j \in 1..Len(rbatch) :
            i # j => specFileBasename(rbatch[i]) # specFileBasename(rbatch[j]))
    =>
        /\ BatchDone =>
            /\ DOMAIN rfiles = { specFileBasename(rbatch[i]) \o Json : i \in 1..Len(rbatch) }
            /\ Cardinality(DOMAIN rfiles) = Len(rbatch)
            /\ \A i \in 1..Len(rbatch) :
                   rfiles[specFileBasename(rbatch[i]) \o Json].obj = rbatch[i]
        /\ rpc \in {"push", "done"} =>
            /\ Cardinality(GitCalls("commit")) = 1
            /\ \A k \in GitCalls("commit") :
                   /\ Includes(rgit[k].message, <<Word("Update")>>)
                   /\ Includes(rgit[k].message, <<Word("black-angel"), Word("/"), Word("tonina")>>)
                   /\ Includes(rgit[k].message, <<GeneratedMarker>>)
        /\ ReturnedNormally =>
            /\ Cardinality(GitCalls("push")) = 1
            /\ \A k \in 1..Len(rgit) : rgit[k].ok

\* two resources written to an empty sync repo, committed and pushed
C15_Witness ==
    /\ raction = "upsert"
    /\ rhead = <<>>
    /\ Len(rbatch) = 2
    /\ Cardinality(DOMAIN rfiles) = 2
    /\ ReturnedNormally
    /\ Len(rgit) = 2

\* the resources of the batch that syncResources is done with
Processed == 1..(ridx - 1)

OpsOf(i) == { k \in 1..Len(rops) : rops[k].resource = i }

\* C16: on upsert a resource whose identity is that of an existing spec
\* file entry overwrites a file holding that identity, in place, and no
\* file is created for it; a resource that differs from an entry in its
\* namespace only is not matched to that entry: it is written to a new
\* file.
C16_MatchOverwritesInPlace ==
    raction = "upsert" =>
        \A i \in Processed :
            /\ Cardinality(OpsOf(i)) = 1
            /\ \A k \in OpsOf(i) :
                   IF FilesOf(rbatch[i]) # {}
                   THEN /\ rops[k].op = "setContent"
                        /\ rops[k].path \in FilesOf(rbatch[i])
                        /\ rfiles[rops[k].path].obj.metadata = rbatch[i].metadata
                        /\ (\A j \in Processed : j > i => rops[k].path \notin {rops[l].path : l \in OpsOf(j)})
                               => rfiles[rops[k].path].obj = rbatch[i]
                   ELSE /\ rops[k].op = "addFile"
                        /\ rops[k].path \notin DOMAIN rhead
                        /\ rops[k].path \in DOMAIN rfiles
                        /\ rfiles[rops[k].path].obj = rbatch[i]

\* the Service of black-angel is rewritten in its file and the Service of
\* the same name in lovett, which has no file, is written to a new one
C16_Witness ==
    /\ raction = "upsert"
    /\ Len(rbatch) = 2
    /\ BatchDone
    /\ rbatch[1].metadata.namespace # rbatch[2].metadata.namespace
    /\ rbatch[1].kind = rbatch[2].kind
    /\ FilesOf(rbatch[1]) # {}
    /\ FilesOf(rbatch[2]) = {}
    /\ \E p \in DOMAIN rhead : rhead[p].obj.body = "old" /\ rfiles[p].obj = rbatch[1]
    /\ Cardinality(DOMAIN rfiles) = Cardinality(DOMAIN rhead) + 1

\* C17: on upsert of a resource without identity match whose name
\* specFileBasename(resource) + ".json" is taken, the file of that name
\* and every other file keep their content, and the resource is written
\* to a new file, named by the base name and a suffix, that no file had
\* before; the first name found free is the name used.
C17_TakenNameGetsSuffix ==
    [][ rpc = "probe" =>
          LET base == specFileBasename(rbatch[ridx])
          IN  /\ rfiles' # rfiles =>
                  /\ rpath \notin DOMAIN rfiles
                  /\ DOMAIN rfiles' = DOMAIN rfiles \cup {rpath}
                  /\ \A p \in DOMAIN rfiles : rfiles'[p] = rfiles[p]
                  /\ rfiles'[rpath].obj = rbatch[ridx]
                  /\ rtried \subseteq DOMAIN rfiles
                  /\ (base \o Json) \in DOMAIN rfiles =>
                         /\ (base \o Json) \in rtried
                         /\ \E guid \in Guids : rpath = base \o <<"-">> \o guid \o Json
              /\ rpath \notin DOMAIN rfiles =>
                  /\ rpath \in DOMAIN rfiles'
                  /\ rpc' = "loop"
      ]_vars

\* a resource written to a suffixed name after two names were found taken,
\* next to the files of the clone, which hold what they held
C17_Witness ==
    /\ \E k \in 1..Len(rops) :
           /\ rops[k].op = "addFile"
           /\ Cardinality(rops[k].tried) = 2
           /\ rops[k].path \in DOMAIN rfiles
    /\ \A p \in DOMAIN rhead : p \in DOMAIN rfiles /\ rfiles[p] = rhead[p]

\* C18: a delete removes the spec file of every resource of the batch that
\* has a matching entry; for a resource without one nothing is done to any
\* file and nothing is thrown, and the call goes on to its end.
C18_DeleteRemovesMatchedFiles ==
    raction = "delete" =>
        /\ \A i \in Processed :
               IF FilesOf(rbatch[i]) # {}
               THEN /\ \E p \in FilesOf(rbatch[i]) : p \notin DOMAIN rfiles
                    /\ \A k \in OpsOf(i) : rops[k].op = "deleteFile" /\ rops[k].path \in FilesOf(rbatch[i])
               ELSE OpsOf(i) = {}
        /\ \A p \in DOMAIN rfiles : p \in DOMAIN rhead /\ rfiles[p] = rhead[p]
        /\ (rthrown # NoThrow /\ ridx \in 1..Len(rbatch)) => FilesOf(rbatch[ridx]) # {}
        /\ (ReturnedNormally /\ ridx >= 1) => BatchDone

\* a delete of a resource without spec file and of one with a spec file:
\* the file is gone, the change committed and pushed
C18_Witness ==
    /\ raction = "delete"
    /\ Len(rbatch) = 2
    /\ FilesOf(rbatch[1]) = {}
    /\ FilesOf(rbatch[2]) # {}
    /\ ReturnedNormally
    /\ Len(rops) = 1
    /\ rops[1].path \notin DOMAIN rfiles
    /\ Len(rgit) = 2

\* C19: syncResources calls commit at most once and push at most once; it
\* commits exactly when, the whole batch processed, the working copy is
\* not clean, and never before; it pushes only after the commit succeeded;
\* with a clean working copy it neither commits nor pushes.
C19_OneCommitWhenDirty ==
    /\ Cardinality(GitCalls("commit")) <= 1
    /\ Cardinality(GitCalls("push")) <= 1
    /\ \A k \in GitCalls("commit") :
           /\ rgit[k].processed = Len(rbatch)
           /\ rfiles # rhead
    /\ \A k \in GitCalls("push") : k > 1 /\ rgit[k - 1].cmd = "commit" /\ rgit[k - 1].ok
    /\ (BatchDone /\ rpc \in {"push", "done"}) =>
           (GitCalls("commit") # {} <=> rfiles # rhead)
    /\ ~BatchDone => rgit = <<>>

\* a batch whose resources are in the sync repo as they are: files are
\* rewritten, the working copy is clean and nothing is committed
C19_Witness ==
    /\ ReturnedNormally
    /\ BatchDone
    /\ rops # <<>>
    /\ rfiles = rhead
    /\ rgit = <<>>

\* C20: a failure of commit or of push reaches the caller of syncResources
\* and of syncApplication: the call does not return normally after it,
\* and push is not called after a failed commit.
C20_CommitPushFailurePropagates ==
    /\ \A k \in 1..Len(rgit) :
           ~rgit[k].ok =>
               /\ k = Len(rgit)
               /\ rpc = "done"
               /\ rthrown # NoThrow
               /\ rthrown[1] = "Failed to perform sync resources"
               /\ rthrown[2] = "Failed to commit and push resource changes to sync repo"
               /\ rthrown[3] = rgit[k].cmd
    /\ ReturnedNormally => \A k \in 1..Len(rgit) : rgit[k].ok

\* a commit that failed: nothing was pushed and syncApplication threw
C20_Witness ==
    /\ Len(rgit) = 1
    /\ rgit[1].cmd = "commit"
    /\ ~rgit[1].ok
    /\ rpc = "done"
    /\ rthrown # NoThrow

(***************************************************************************)
(* Properties of the Secret Cipher (SpecCipher)                            *)
(***************************************************************************)
RoundTripDone == cpc \in {"decrypted", "failed"} /\ cdkey = ckey

\* C29: for every non-empty text and every non-empty key, encrypt returns
\* and decrypt of what it returned, under the same key, returns the text.
C29_DecryptInvertsEncrypt ==
    (ctext # <<>> /\ ckey # <<>>) =>
        /\ cpc # "threw"
        /\ RoundTripDone => (cpc = "decrypted" /\ cdec = ctext)

\* a text of two blocks with padding went through both under a key longer
\* than the salt, and the encrypted text is not the text
C29_Witness ==
    /\ RoundTripDone
    /\ cpc = "decrypted"
    /\ ctext = SecretValue
    /\ ckey = LongKey
    /\ cdec = ctext
    /\ cenc # ctext
    /\ Len(Base64Decode(cenc)) = 2 * BlockSize

(***************************************************************************)
(* Properties of the text the reverse sync writes (SpecWrite)              *)
(***************************************************************************)
\* the operations that wrote what their file holds now
LastWrite(i) ==
    /\ rops[i].op \in {"setContent", "addFile"}
    /\ ~\E j \in (i + 1)..Len(rops) : rops[j].path = rops[i].path

EncryptedData(data, key) ==
    [d \in 1..Len(data) |-> <<data[d][1], encrypt(data[d][2], key).value>>]

\* C21: with a secret key configured, the file written for a Secret holds
\* every data value encrypted under that key and never the clear value,
\* with apiVersion, kind, name and namespace as given; without a key it
\* holds the values as given.
C21_SecretDataEncryptedUnderKey ==
    \A i \in 1..Len(rops) :
        (LastWrite(i) /\ rbatch[rops[i].resource].kind = "Secret") =>
            LET resource == rbatch[rops[i].resource]
                stored == rfiles[rops[i].path].obj
            IN  /\ stored.apiVersion = resource.apiVersion
                /\ stored.kind = resource.kind
                /\ stored.metadata = resource.metadata
                /\ IF ropts.secretKey # NoKey
                   THEN /\ stored.body.data = EncryptedData(resource.body.data, ropts.secretKey)
                        /\ \A d \in 1..Len(resource.body.data) :
                               stored.body.data[d][2] # resource.body.data[d][2]
                   ELSE stored.body.data = resource.body.data

\* the sorted order of the property names of the modelled resources
SortedKeyOrder == <<"apiVersion", "data", "kind", "metadata", "type">>

KeysSorted(keys) ==
    \A i, j \in 1..Len(keys) :
        i < j => IndexOf(SortedKeyOrder, keys[i]) < IndexOf(SortedKeyOrder, keys[j])

\* C22: a matched file with extension .yaml or .yml is rewritten as YAML;
\* any other matched file and every new file is written as JSON with the
\* keys in sorted order, whatever order the resource holds them in.
C22_FormatOfMatchedFileKeysSorted ==
    \A i \in 1..Len(rops) :
        LastWrite(i) =>
            LET text == rfiles[rops[i].path]
            IN  IF rops[i].op = "setContent" /\ IsYamlPath(rops[i].path)
                THEN text.text = "yaml"
                ELSE /\ text.text = "json"
                     /\ KeysSorted(text.obj.body.keys)

(***************************************************************************)
(* Properties of the Resource Applier (SpecApply, SpecDelete)              *)
(***************************************************************************)
CallsOf(calls, op) == { c \in 1..Len(calls) : calls[c].op = op }

\* the invocations of upsertIngress that got to the read
Upserts == { i \in 1..Len(alog) : alog[i].op = "upsertIngress" /\ alog[i].calls # <<>> }

\* the calls of an operation that were issued by the function itself: a
\* call that follows a failed call of the same operation is an attempt
\* logRetry makes of the call before it
IssuedCalls(calls, op) ==
    { c \in CallsOf(calls, op) : calls[c - 1].op # op \/ calls[c - 1].ok }

\* C23: an upsert with port and path reads first; when the read fails it
\* issues exactly one create and no patch, when the read succeeds exactly
\* one patch and no create, never both; the attempts logRetry makes of
\* that one call are bounded and each but the last failed.
C23_OneCreateOrOnePatch ==
    \A i \in Upserts :
        LET calls == alog[i].calls
        IN  /\ calls[1].op = "read"
            /\ CallsOf(calls, "read") = {1}
            /\ IF calls[1].ok
               THEN /\ Cardinality(IssuedCalls(calls, "patch")) = 1
                    /\ CallsOf(calls, "create") = {}
               ELSE /\ Cardinality(IssuedCalls(calls, "create")) = 1
                    /\ CallsOf(calls, "patch") = {}
            /\ Len(calls) <= 1 + MaxAttempts
            /\ \A c \in 2..(Len(calls) - 1) : ~calls[c].ok
            /\ alog[i].thrown = NoThrow <=> calls[Len(calls)].ok

\* a read that failed, a create that failed and a create that succeeded
C23_Witness ==
    \E i \in Upserts :
        /\ Len(alog[i].calls) = 3
        /\ ~alog[i].calls[1].ok
        /\ alog[i].calls[2] = ApiCall("create", "ingress", FALSE)
        /\ alog[i].calls[3] = ApiCall("create", "ingress", TRUE)
        /\ alog[i].thrown = NoThrow
        /\ alog[i].ret = "ingress"

\* C24: upsertIngress on a request without a port or without a path calls
\* the cluster API not at all, throws nothing and returns undefined.
C24_NoPortOrPathNoCall ==
    \A i \in 1..Len(alog) :
        (alog[i].op = "upsertIngress" /\ (~alog[i].req.port \/ ~alog[i].req.path)) =>
            /\ alog[i].calls = <<>>
            /\ alog[i].thrown = NoThrow
            /\ alog[i].ret = Undefined

\* an upsert with a port and without a path returned, the cluster as it was
\* left by the invocation before
C24_Witness ==
    \E i \in 1..Len(alog) :
        /\ alog[i].op = "upsertIngress"
        /\ alog[i].req.port
        /\ ~alog[i].req.path
        /\ alog[i].ret = Undefined
        /\ alog[i].calls = <<>>

Deletes == { i \in 1..Len(alog) : alog[i].op = "deleteIngress" }

\* C25: deleteIngress whose read fails issues no delete, throws nothing
\* and returns undefined; it issues a delete only after a read that
\* succeeded; and right after a deleteIngress that deleted the ingress, a
\* second deleteIngress finds nothing, deletes nothing and returns
\* undefined without an error.
C25_DeleteIdempotent ==
    /\ \A i \in Deletes :
           LET calls == alog[i].calls
           IN  /\ calls[1].op = "read"
               /\ ~calls[1].ok =>
                      /\ Len(calls) = 1
                      /\ alog[i].thrown = NoThrow
                      /\ alog[i].ret = Undefined
               /\ \A c \in CallsOf(calls, "delete") : c > 1 /\ calls[1].ok
    /\ \A i \in Deletes :
           (i + 1 \in Deletes /\ alog[i].thrown = NoThrow /\ alog[i].ret = "ingress") =>
               /\ alog[i + 1].calls = <<ApiCall("read", "ingress", FALSE)>>
               /\ alog[i + 1].thrown = NoThrow
               /\ alog[i + 1].ret = Undefined

\* the ingress was deleted and deleted again
C25_Witness ==
    \E i \in Deletes :
        /\ i + 1 \in Deletes
        /\ alog[i].ret = "ingress"
        /\ alog[i].calls[Len(alog[i].calls)] = ApiCall("delete", "ingress", TRUE)
        /\ alog[i + 1].ret = Undefined
        /\ alog[i + 1].thrown = NoThrow

\* the invocations of deleteApplication that had a Kubernetes configuration
AppDeletes ==
    { i \in 1..Len(alog) : alog[i].op = "deleteApplication" /\ alog[i].thrown # ConfigFailure }

RECURSIVE KindsCalled(_)
KindsCalled(calls) ==
    IF calls = <<>> THEN <<>>
    ELSE IF Len(calls) > 1 /\ calls[1].kind = calls[2].kind THEN KindsCalled(Tail(calls))
    ELSE <<calls[1].kind>> \o KindsCalled(Tail(calls))

LastCallOf(calls, kind) ==
    calls[CHOOSE c \in 1..Len(calls) :
              /\ calls[c].kind = kind
              /\ \A d \in (c + 1)..Len(calls) : calls[d].kind # kind]

KindFailed(calls, kind) ==
    LastCallOf(calls, kind).op = "delete" /\ ~LastCallOf(calls, kind).ok

KindDeleted(calls, kind) ==
    LastCallOf(calls, kind).op = "delete" /\ LastCallOf(calls, kind).ok

RECURSIVE FailuresFrom(_, _)
FailuresFrom(calls, k) ==
    IF k > Len(DeleteOrder) THEN <<>>
    ELSE (IF KindFailed(calls, DeleteOrder[k])
          THEN <<DeleteFailure(DeleteOrder[k], ApiError("delete", DeleteOrder[k]))>>
          ELSE <<>>) \o FailuresFrom(calls, k + 1)

RECURSIVE DeletedFrom(_, _)
DeletedFrom(calls, k) ==
    IF k > Len(DeleteOrder) THEN <<>>
    ELSE (IF KindDeleted(calls, DeleteOrder[k]) THEN <<DeleteOrder[k]>> ELSE <<>>)
             \o DeletedFrom(calls, k + 1)

Completed(p) == hcall[p].pc \in {"returned", "threw"}

\* C27: when a call of patchWithHeaders is over, whether it returned or
\* threw, the defaultHeaders of the client are what they were right before
\* the call.
C27_HeadersRestoredAfterPatch ==
    \A p \in Callers :
        (hcall[p].kind = "patch" /\ Completed(p)) => hcall[p].after = hcall[p].old

HasPatchHeader(headers) ==
    ContentType \in DOMAIN headers /\ headers[ContentType] = StrategicMergePatch

\* C28: with calls overlapping on one client, no call that is no patch is
\* made with the Content-Type of a patch, and when every call is over the
\* defaultHeaders are the ones the client had before the first call.
C28_NoLeakAcrossOverlappingCalls ==
    /\ \A p \in Callers : hcall[p].kind = "other" => ~HasPatchHeader(hcall[p].used)
    /\ (\A p \in Callers : Completed(p)) => hdefault = hbase

(***************************************************************************)
(* Order of the forward sync (Spec)                                        *)
(***************************************************************************)
\* the position in the push of the commit a change record is of
CommitOf(change) == CHOOSE k \in 1..Len(cur.commits) : cur.commits[k].sha = change.sha

\* the records of the k-th commit handed to changeResource so far, in order
AppliedOf(k) ==
    LET applied == SelectSeq(attempted, LAMBDA a : a.change.sha = cur.commits[k].sha)
    IN  [i \in 1..Len(applied) |-> applied[i].change]

IsPrefix(a, b) == Len(a) <= Len(b) /\ \A i \in 1..Len(a) : a[i] = b[i]

\* C30: the forward sync hands the change records to changeResource one
\* at a time: the records of an earlier commit of the push before those of
\* a later one, the records of one commit in the order the Change
\* Extractor returned them, and a call only when every call before it has
\* succeeded or failed.
C30_OneChangeAtATimeInCommitOrder ==
    /\ \A i, j \in 1..Len(attempted) :
           i < j => CommitOf(attempted[i].change) <= CommitOf(attempted[j].change)
    /\ \A k \in 1..Len(cur.commits) :
           IsPrefix(AppliedOf(k),
                    parseNameStatusDiff(cur.commits[k].sha, cur.commits[k].diff))
    /\ inflight \subseteq {Len(attempted) + 1}
    /\ \A i \in inflight : i <= Len(changes)

\* a push of two commits with two records each went through, a record of
\* the first commit having failed
C30_Witness ==
    /\ pc = "done"
    /\ Len(cur.commits) = 2
    /\ Len(attempted) = 4
    /\ Len(AppliedOf(1)) = 2
    /\ Len(AppliedOf(2)) = 2
    /\ ~attempted[1].ok
    /\ attempted[3].ok
    /\ inflight = {}

(***************************************************************************)
(* Properties of the startup of the sync (SpecStartup)                     *)
(***************************************************************************)
ActiveCycles == At(sjobs, "running")

\* C31: at most one sync cycle is active at any time: the sync started at
\* startup and the syncs started by the interval timer never overlap,
\* neither as calls of sdmRepoSync nor as running jobs, and only the
\* cluster master starts them: a process in local mode, and a worker
\* process, calls sdmRepoSync never and registers no timer.
C31_AtMostOneActiveCycle ==
    /\ Cardinality(ActiveCycles) <= 1
    /\ Cardinality(Pending(sinv)) <= 1
    /\ (sproc.local \/ ~sproc.master) => (sinv = <<>> /\ sjobs = <<>> /\ ~stimer)

(***************************************************************************)
(* Properties of one sync cycle (SpecRepoSync)                             *)
(***************************************************************************)
ErrorLogged(log, thrown) ==
    \E i \in 1..Len(log) :
        /\ log[i].level = "error"
        /\ log[i].message = <<"Failed to perform sync using repo">> \o thrown

\* C32: repoSync never throws: when the clone of the sync repo or the
\* apply of its specs failed, the failure is logged as an error and
\* repoSync returns; context.lifecycle.dispose is called exactly once in
\* every cycle, after doWithProject has settled and before repoSync
\* returns, whether the cycle succeeded, the clone failed, syncApply threw
\* or dispose itself failed.
C32_RepoSyncNeverThrowsDisposesOnce ==
    /\ wpc # "threw"
    /\ wdisposed <= 1
    /\ wdisposed = 1 => (wpc = "returned" /\ bpc = "done")
    /\ wpc = "returned" =>
         /\ wdisposed = 1
         /\ bthrown # NoThrow <=> ErrorLogged(wlog, bthrown)

C32_Witness ==
    /\ wpc = "returned"
    /\ wdisposed = 1
    /\ Len(berrors) > 0
    /\ bthrown # NoThrow
    /\ \E i \in 1..Len(wlog) : wlog[i].level = "warn"

(***************************************************************************)
(* Properties of upsertApplication (SpecUpsert)                            *)
(***************************************************************************)
NoUpsertRejected == \A i \in 1..Len(ucalls) : ucalls[i].outcome # "rejected"

ConfigLoaded == uret.thrown # LoadConfigFailure

\* C33: upsertApplication for an application without port or without path,
\* when the configuration loads and none of the upsert functions rejects,
\* returns: it throws nothing, the ingress step makes no call of the
\* cluster API, and the resources of the other steps are returned.
C33_NoIngressStillSucceeds ==
    (upc = "done" /\ (~uapp.port \/ ~uapp.path) /\ ConfigLoaded /\ NoUpsertRejected) =>
        /\ uret.thrown = NoThrow
        /\ uret.value = ures
        /\ \A i \in 1..Len(ucalls) : ucalls[i].kind = "ingress" => ~ucalls[i].cluster

CalledKinds == [i \in 1..Len(ucalls) |-> ucalls[i].kind]

StepFailed == uret.thrown # NoThrow /\ ConfigLoaded

\* C38: upsertApplication calls the upsert functions in the order
\* namespace, RBAC, service, secrets, deployment, ingress, each after every
\* earlier one has resolved; when a step fails (its function rejects or its
\* result cannot be read) no later function is called and the call throws
\* "Failed to upsert" with the request; when loadKubeConfig fails no upsert
\* function is called at all; the call returns only after all six.
C38_FixedUpsertOrderStopsAtFailure ==
    /\ IsPrefix(CalledKinds,
                <<"namespace", "rbac", "service", "secrets", "deployment", "ingress">>)
    /\ \A i \in 1..(Len(ucalls) - 1) : ucalls[i].outcome = "resolved"
    /\ (\E i \in 1..Len(ucalls) : ucalls[i].outcome = "rejected") => StepFailed
    /\ StepFailed =>
         /\ upc = "done"
         /\ Len(ucalls) >= 1
         /\ uret.thrown[1] = "Failed to upsert"
         /\ uret.thrown[2] = uapp
    /\ ~ConfigLoaded => (upc = "done" /\ ucalls = <<>>)
    /\ (upc = "done" /\ uret.thrown = NoThrow) =>
         (Len(ucalls) = 6 /\ \A i \in 1..6 : ucalls[i].outcome = "resolved")

C38_Witness ==
    /\ upc = "done"
    /\ StepFailed
    /\ Len(ucalls) = 4
    /\ ucalls[4].kind = "secrets"
    /\ ucalls[4].outcome = "rejected"

(***************************************************************************)
(* Further properties of the Reverse Sync Writer (SpecRev)                 *)
(***************************************************************************)
IndexBuilt == rpc \in {"loop", "probe", "commit", "push"}

IndexedFiles == { rspecs[i].file : i \in 1..Len(rspecs) }

Unparsable(files) == { p \in DOMAIN files : files[p].text = "junk" }

\* C34: the index syncResources builds holds every spec file of the clone
\* that parses, once, with the object it holds, and no file that fails to
\* parse; a file that fails to parse does not end the call: the loop over
\* the batch follows, and what syncApplication throws is never a parse
\* failure.
C34_UnparsableFileOmittedScanGoesOn ==
    /\ IndexBuilt =>
         /\ IndexedFiles = DOMAIN rhead \ Unparsable(rhead)
         /\ \A i, j \in 1..Len(rspecs) :
              /\ rspecs[i].spec = rhead[rspecs[i].file].obj
              /\ rspecs[i].file = rspecs[j].file => i = j
    /\ rthrown \in { NoThrow,
                     <<"Failed to perform sync resources", "clone">>,
                     <<"Failed to perform sync resources", "deleteFile">>,
                     <<"Failed to perform sync resources",
                       "Failed to commit and push resource changes to sync repo", "commit">>,
                     <<"Failed to perform sync resources",
                       "Failed to commit and push resource changes to sync repo", "push">> }

C34_Witness ==
    /\ rpc = "done"
    /\ rthrown = NoThrow
    /\ Unparsable(rhead) # {}
    /\ \E i, j \in 1..Len(StorePaths) :
         i < j /\ StorePaths[i] \in Unparsable(rhead) /\ StorePaths[j] \in IndexedFiles
    /\ \E i \in 1..Len(rops) : rops[i].op = "setContent"
    /\ Len(rgit) = 2

(***************************************************************************)
(* Order of a bulk sync over files named by specFileBasename (SpecName)    *)
(***************************************************************************)
\* the place of a kind in the order of its dependencies
KindRank(kind) ==
    CASE kind = "Namespace" -> 1
      [] kind = "ServiceAccount" -> 2
      [] kind \in {"Role", "ClusterRole"} -> 3
      [] kind \in {"RoleBinding", "ClusterRoleBinding"} -> 4
      [] kind = "Service" -> 5
      [] kind = "Secret" -> 6
      [] kind = "Deployment" -> 7
      [] kind \in {"Ingress", "HorizontalPodAutoscaler"} -> 8

NamedSpecFile(i) == [path |-> nbase[i] \o ExtJson, secret |-> FALSE]

\* the places, in the order syncApply walks them, of the spec files named
\* after the two resources
AppliesInOrder(i, j) ==
    /\ sortSpecs(<<NamedSpecFile(i), NamedSpecFile(j)>>) = <<NamedSpecFile(i), NamedSpecFile(j)>>
    /\ sortSpecs(<<NamedSpecFile(j), NamedSpecFile(i)>>) = <<NamedSpecFile(i), NamedSpecFile(j)>>

\* C35: of two spec files named by specFileBasename, a bulk sync, which
\* walks the files in the order sortSpecs gives, applies the file of the
\* kind that comes first in Namespace < ServiceAccount < Role/ClusterRole <
\* RoleBinding/ClusterRoleBinding < Service < Secret < Deployment <
\* Ingress/HorizontalPodAutoscaler before the other: a Namespace before
\* every other resource, a ServiceAccount and a Role before a RoleBinding.
C35_DependenciesAppliedFirst ==
    npc = "done" =>
        \A i, j \in 1..2 :
            KindRank(nres[i].kind) < KindRank(nres[j].kind) => AppliesInOrder(i, j)

(***************************************************************************)
(* Properties of a repeated reverse sync (SpecRerun)                       *)
(***************************************************************************)
SecondRunOver == rrun = 2 /\ rpc \in {"loop", "commit", "push", "done"} /\ ridx > Len(rbatch)

\* C36: a second run of syncResources(resources, "upsert") with the same
\* batch on the working copy the first run left creates no file, and when
\* its loop is over every file holds what it held after the first run.
C36_SecondUpsertChangesNothing ==
    /\ rrun = 2 => DOMAIN rfiles = DOMAIN rfirst
    /\ SecondRunOver => rfiles = rfirst

(***************************************************************************)
(* Frame and uniqueness of the Reverse Sync Writer (SpecRev)               *)
(***************************************************************************)
\* a file of the clone that no resource of the batch matches by identity:
\* it did not parse, or what it holds differs from every resource in
\* apiVersion, kind, name or namespace (so does a file holding "{}")
Unmatched(p) ==
    \/ rhead[p].text = "junk"
    \/ \A i \in 1..Len(rbatch) : ~SameIdentity(rhead[p].obj, rbatch[i])

\* C39: at every point of syncResources, for "upsert" and for "delete", a
\* file of the clone that is matched by identity to no resource of the
\* batch is in the working copy with the content it had.
C39_UnmatchedFilesUntouched ==
    \A p \in DOMAIN rhead : Unmatched(p) => (p \in DOMAIN rfiles /\ rfiles[p] = rhead[p])

\* a delete that removed the file of a resource and left the file of the
\* resource of the same kind and name in another namespace
C39_Witness ==
    /\ raction = "delete"
    /\ rpc = "done"
    /\ Len(rops) = 1
    /\ rops[1].path \notin DOMAIN rfiles
    /\ \E p \in DOMAIN rhead, i \in 1..Len(rbatch) :
           /\ Unmatched(p)
           /\ rhead[p].text # "junk"
           /\ rhead[p].obj.kind = rbatch[i].kind
           /\ rhead[p].obj.metadata.name = rbatch[i].metadata.name
           /\ rhead[p].obj.metadata.namespace # rbatch[i].metadata.namespace
           /\ rfiles[p] = rhead[p]

\* the files that hold an object with an identity
Identified(files) ==
    { p \in DOMAIN files : files[p].text # "junk" /\ files[p].obj # NoObject }

OneFilePerIdentity(files) ==
    \A p, q \in Identified(files) : SameIdentity(files[p].obj, files[q].obj) => p = q

\* C40: when every identity has at most one spec file in the clone, then
\* during and after syncResources with action "upsert", whatever the batch,
\* every identity has at most one spec file in the working copy.
C40_OneFilePerIdentityKept ==
    (raction = "upsert" /\ OneFilePerIdentity(rhead)) => OneFilePerIdentity(rfiles)

(***************************************************************************)
(* Properties of the clients of makeApiClients (SpecMakeClients)           *)
(***************************************************************************)
PatchCalls == { p \in Callers : hcall[p].pc # "idle" }

\* C37: the request of every patch call made through a client that
\* makeApiClients returned (secret, service, service account, deployment,
\* ingress, role, role binding, cluster role, cluster role binding) carries
\* Content-Type: application/strategic-merge-patch+json.
C37_PatchCallsCarryPatchHeader ==
    \A p \in PatchCalls :
        /\ "Content-Type" \in DOMAIN hcall[p].used
        /\ hcall[p].used["Content-Type"] = "application/strategic-merge-patch+json"

====
